---- MODULE Spec2Model ----
(***************************************************************************)
(* Model of the permission-scoped resource engine of api.fuelrats.com:     *)
(* APIResource (create / update and the field-level and entity-level write *)
(* gates), the Rescues and Rats resources built on it, the read views and  *)
(* the Document envelope.                                                  *)
(*                                                                         *)
(* JavaScript values are modelled by records of a fixed shape; a value     *)
(* that may be missing carries a boolean flag next to it.  `undefined` is  *)
(* the string "undefined" where a lookup may yield it.                     *)
(***************************************************************************)
EXTENDS Integers, Sequences, FiniteSets, TLC

VARIABLES
    focus,   \* the resource whose endpoints this run exercises
    store,   \* the storage collaborator: the rows of Rescue and Rat
    ctx,     \* the request context of the request handled last
    calls,   \* the storage calls the last handler issued, in order
    result,  \* what the last handler returned or threw
    va,      \* inputs and verdict of the last field-access validation
    doc,     \* inputs and rendering of the last Document / view
    inflight \* the requests in progress: each one's position and what it fetched

vars == <<focus, store, ctx, calls, result, va, doc, inflight>>

\* ---------------------------------------------------------------- bounds
\* Longest attributes object of a request (number of keys).
MaxAttrs == 2

\* ------------------------------------------------------------- utilities
\* No request is in progress.
NoRequests == <<>>

\* Object.entries order matters (forEach stops at the first throw): an
\* object's keys are a sequence without repetition.
KeySeqs(S, n) ==
    { s \in UNION { [1..k -> S] : k \in 0..n } :
        \A i, j \in DOMAIN s : i # j => s[i] # s[j] }

Range(s) == { s[i] : i \in DOMAIN s }

\* ---------------------------------------------------- permission tiers
\* @enumerable class WritePermission: five distinct (truthy) members.
WritePermission == {"internal", "self", "group", "sudo", "all"}

\* Keys every object literal inherits from Object.prototype: a lookup
\* map[key] yields a function for them, not undefined.
ObjectPrototypeKeys == {"constructor"}

\* this.writePermissionsForFieldAccess[key]
PolicyLookup(policy, key) ==
    IF key \in DOMAIN policy THEN policy[key]
    ELSE IF key \in ObjectPrototypeKeys THEN "inherited"
    ELSE "undefined"

\* Permission.granted({ permissions, connection }): the connection's granted
\* scopes contain one of the listed permissions.
Granted(permissions, scopes) == (permissions \cap scopes) # {}

\* The switch of validateCreateAccess / validateUpdateAccess.
hasPermissionMutSudoSelf(attributePermissions, isGroup, isSelf, isInternal) ==
    CASE attributePermissions = "all" -> TRUE
      [] attributePermissions = "internal" -> isInternal
      [] attributePermissions = "sudo" -> isGroup \/ isSelf
      [] attributePermissions = "group" -> isGroup \/ isSelf
      [] attributePermissions = "self" -> isSelf
      [] OTHER -> FALSE

hasPermission(attributePermissions, isGroup, isSelf, isInternal) ==
    CASE attributePermissions = "all" -> TRUE
      [] attributePermissions = "internal" -> isInternal
      [] attributePermissions = "sudo" -> isGroup
      [] attributePermissions = "group" -> isGroup \/ isSelf
      [] attributePermissions = "self" -> isSelf
      [] OTHER -> FALSE

\* The body of the forEach callback: does this key make the validation throw?
KeyDeniedMutSkipUnknown(policy, key, isGroup, isSelf, isInternal) ==
    LET attributePermissions == PolicyLookup(policy, key) IN
    /\ attributePermissions # "undefined"
    /\ ~hasPermission(attributePermissions, isGroup, isSelf, isInternal)

KeyDenied(policy, key, isGroup, isSelf, isInternal) ==
    LET attributePermissions == PolicyLookup(policy, key) IN
    \/ attributePermissions = "undefined"
    \/ ~hasPermission(attributePermissions, isGroup, isSelf, isInternal)

\* Object.entries(attributes).forEach(...): the first key that throws decides.
ValidateKeys(policy, attributes, isGroup, isSelf, isInternal) ==
    LET bad == { i \in DOMAIN attributes :
                   KeyDenied(policy, attributes[i], isGroup, isSelf, isInternal) }
    IN IF bad = {} THEN [ok |-> TRUE, pointer |-> ""]
       ELSE LET first == CHOOSE i \in bad : \A j \in bad : i <= j
            IN [ok |-> FALSE, pointer |-> attributes[first]]

WriteScope(type) == type \o ".write"
WriteMeScope(type) == type \o ".write.me"
InternalScope(type) == type \o ".internal"

validateCreateAccessMutDenySelf(type, policy, scopes, attributes) ==
    ValidateKeys(policy, attributes,
                 Granted({WriteScope(type)}, scopes),
                 FALSE,
                 Granted({InternalScope(type)}, scopes))

validateCreateAccess(type, policy, scopes, attributes) ==
    ValidateKeys(policy, attributes,
                 Granted({WriteScope(type)}, scopes),
                 Granted({WriteMeScope(type)}, scopes),
                 Granted({InternalScope(type)}, scopes))

\* entitySelf is the value of this.isSelf({ ctx, entity }).
validateUpdateAccess(type, policy, scopes, entitySelf, attributes) ==
    ValidateKeys(policy, attributes,
                 Granted({WriteScope(type)}, scopes),
                 entitySelf /\ Granted({WriteMeScope(type)}, scopes),
                 Granted({InternalScope(type)}, scopes))

\* ------------------------------------------- field-access validation runs
\* Longest attributes object given to a validation run is MaxAttrs keys, over
\* two policy fields, a key no policy has and a key of Object.prototype.
AccessKeys == {"notes", "title", "bogus", "constructor"}

\* Any policy a resource may declare for the two fields.
AccessPolicies == [{"notes", "title"} -> WritePermission]

AccessScopes == {"rescues.write", "rescues.write.me", "rescues.internal"}

Va(op, policy, scopes, entitySelf, attributes, verdict) ==
    [ op |-> op, policy |-> policy, scopes |-> scopes, entitySelf |-> entitySelf,
      attributes |-> attributes, ok |-> verdict.ok, pointer |-> verdict.pointer ]

IdleVa ==
    Va("none", [k \in {"notes", "title"} |-> "all"], {}, FALSE, <<>>,
       [ok |-> FALSE, pointer |-> ""])

\* One validation per run: the inputs are drawn when it is called.
ValidateCreate ==
    /\ va.op = "none"
    /\ \E policy \in AccessPolicies, scopes \in SUBSET AccessScopes,
          attributes \in KeySeqs(AccessKeys, MaxAttrs) :
        va' = Va("create", policy, scopes, FALSE, attributes,
                 validateCreateAccess("rescues", policy, scopes, attributes))
    /\ UNCHANGED <<focus, store, ctx, calls, result, doc, inflight>>

ValidateUpdate ==
    /\ va.op = "none"
    /\ \E policy \in AccessPolicies, scopes \in SUBSET AccessScopes,
          entitySelf \in BOOLEAN, attributes \in KeySeqs(AccessKeys, MaxAttrs) :
        va' = Va("update", policy, scopes, entitySelf, attributes,
                 validateUpdateAccess("rescues", policy, scopes, entitySelf, attributes))
    /\ UNCHANGED <<focus, store, ctx, calls, result, doc, inflight>>

\* ------------------------------------------------------------------ views
Views == {"ships", "rescues", "users", "tokens"}

\* get attributes (): field -> read tier; "default" for a field declared
\* without one (defaultReadPermission decides).
viewAttributes(view) ==
    CASE view = "ships" ->
            [ name |-> "all", shipId |-> "all", shipType |-> "all",
              createdAt |-> "all", updatedAt |-> "all", deletedAt |-> "internal" ]
      [] view = "rescues" ->
            [ commandIdentifier |-> "default", codeRed |-> "default",
              data |-> "default", notes |-> "default", platform |-> "default",
              system |-> "default", title |-> "default",
              unidentifiedRats |-> "default", createdAt |-> "default",
              updatedAt |-> "default", deletedAt |-> "internal",
              status |-> "default", outcome |-> "default", quotes |-> "default" ]
      [] view = "users" ->
            [ data |-> "default", email |-> "group", status |-> "default",
              suspended |-> "group", frontierId |-> "group", avatar |-> "default",
              createdAt |-> "default", updatedAt |-> "default",
              deletedAt |-> "internal" ]
      [] OTHER ->
            [ value |-> "self", scope |-> "group", createdAt |-> "all",
              updatedAt |-> "all", deletedAt |-> "internal" ]

defaultReadPermission(view) ==
    CASE view = "ships" -> "all"
      [] view = "rescues" -> "group"
      [] view = "users" -> "all"
      [] OTHER -> "self"

\* The scope family a view tests: tokens are read under the users scopes.
ViewScopeType(view) == IF view = "tokens" THEN "users" ELSE view

\* get isSelf (): the view's own test on the object (objectSelf), then the
\* read.me scope.
viewIsSelf(view, scopes, objectSelf) ==
    IF objectSelf THEN (ViewScopeType(view) \o ".read.me") \in scopes ELSE FALSE

viewIsGroup(view, scopes) == (ViewScopeType(view) \o ".read") \in scopes

viewIsInternalMutGroup(view, scopes) == (ViewScopeType(view) \o ".read") \in scopes

viewIsInternal(view, scopes) == (ViewScopeType(view) \o ".internal") \in scopes

\* The read column of the access table.
canRead(tier, isSelfFacet, isGroupFacet, isInternalFacet) ==
    CASE tier = "all" -> TRUE
      [] tier = "self" -> isSelfFacet
      [] tier = "group" -> isGroupFacet \/ isSelfFacet
      [] tier = "internal" -> isInternalFacet
      [] OTHER -> FALSE

\* The attribute map a view renders: the fields that pass the read check.
renderAttributes(view, scopes, objectSelf) ==
    LET attributes == viewAttributes(view)
        tier(f) == IF attributes[f] = "default" THEN defaultReadPermission(view)
                   ELSE attributes[f]
    IN { f \in DOMAIN attributes :
           canRead(tier(f), viewIsSelf(view, scopes, objectSelf),
                   viewIsGroup(view, scopes), viewIsInternal(view, scopes)) }

\* --------------------------------------------------------------- Document
\* Most resources generateIncludes yields for the primary objects.
MaxIncludes == 3

Include(type, id) == [type |-> type, id |-> id]

IncludeInputs ==
    UNION { [1..k -> { Include(t, i) : t \in {"rats", "users"}, i \in {"id1", "id2"} }] :
              k \in 0..MaxIncludes }

\* get included (): Object.values of the map the reduce builds with
\* acc[include.id] = include.  A key keeps the place of its first insertion
\* and holds the value assigned last.
included(includes) ==
    LET firsts == { i \in DOMAIN includes :
                      \A j \in DOMAIN includes : j < i => includes[j].id # includes[i].id }
        last(id) == CHOOSE i \in DOMAIN includes :
                      /\ includes[i].id = id
                      /\ \A j \in DOMAIN includes : includes[j].id = id => j <= i
        \* the k-th smallest index of firsts
        nth(k) == CHOOSE i \in firsts : Cardinality({ j \in firsts : j <= i }) = k
    IN [ k \in 1..Cardinality(firsts) |-> includes[last(includes[nth(k)].id)] ]

\* get errors (): null in Document; a document class that reports errors
\* overrides it with the list of errors (the list may be empty).
MaxErrors == 2

ErrorsInputs == { [isNull |-> TRUE, count |-> 0] }
                  \cup { [isNull |-> FALSE, count |-> n] : n \in 0..MaxErrors }

\* if (this.errors): null is falsy, an array (even an empty one) is truthy.
Truthy(errors) == ~errors.isNull

documentMutBoth(errors) ==
    IF Truthy(errors) THEN {"errors", "data", "meta", "links", "jsonapi"}
    ELSE {"data", "meta", "links", "included", "jsonapi"}

\* get document (): the members of the envelope.
document(errors) ==
    IF Truthy(errors) THEN {"errors", "meta", "links", "jsonapi"}
    ELSE {"data", "meta", "links", "included", "jsonapi"}

Doc(op, view, scopes, objectSelf, attributes, includes, incl, errors, members) ==
    [ op |-> op, view |-> view, scopes |-> scopes, objectSelf |-> objectSelf,
      attributes |-> attributes, includes |-> includes, included |-> incl,
      errors |-> errors, members |-> members ]

IdleDoc ==
    Doc("none", "none", {}, FALSE, {}, <<>>, <<>>, [isNull |-> TRUE, count |-> 0], {})

ViewScopes(view) ==
    { ViewScopeType(view) \o ".read", ViewScopeType(view) \o ".read.me",
      ViewScopeType(view) \o ".internal" }
    \cup (IF view = "tokens" THEN {"tokens.internal"} ELSE {})

\* A view renders one object for a requester.
RenderView ==
    /\ doc.op = "none"
    /\ \E view \in Views, objectSelf \in BOOLEAN :
       \E scopes \in SUBSET ViewScopes(view) :
        doc' = Doc("render", view, scopes, objectSelf,
                   renderAttributes(view, scopes, objectSelf), <<>>, <<>>,
                   IdleDoc.errors, {})
    /\ UNCHANGED <<focus, store, ctx, calls, result, va, inflight>>

\* A Document renders its envelope.
RenderDocument ==
    /\ doc.op = "none"
    /\ \E includes \in IncludeInputs, errors \in ErrorsInputs :
        doc' = Doc("document", "none", {}, FALSE, {}, includes,
                   IF Truthy(errors) THEN <<>> ELSE included(includes),
                   errors, document(errors))
    /\ UNCHANGED <<focus, store, ctx, calls, result, va, inflight>>

\* ------------------------------------------------------------ resources
Types == {"rescues", "rats"}

rescueAccessHours == 3
\* rescueAccessTime, in hours (the source counts milliseconds).
rescueAccessTime == rescueAccessHours

writePermissionsForFieldAccess(type) ==
    IF type = "rescues" THEN
        [ client |-> "group", clientNick |-> "group", clientLanguage |-> "group",
          commandIdentifier |-> "sudo", codeRed |-> "group", data |-> "group",
          notes |-> "group", platform |-> "group", system |-> "group",
          title |-> "sudo", unidentifiedRats |-> "group", outcome |-> "group",
          quotes |-> "group", createdAt |-> "internal", updatedAt |-> "internal",
          deletedAt |-> "internal" ]
    ELSE
        [ name |-> "group", data |-> "group", platform |-> "group",
          frontierId |-> "internal", createdAt |-> "internal",
          updatedAt |-> "internal", deletedAt |-> "internal" ]

\* relationTypes[relation]; "undefined" for a relation the map lacks.
relationTypes(type, relation) ==
    IF type = "rescues" THEN
        CASE relation = "rats" -> "rats"
          [] relation = "firstLimpet" -> "rats"
          [] relation = "rescueClient" -> "rescue-clients"
          [] OTHER -> "undefined"
    ELSE
        CASE relation = "user" -> "users"
          [] OTHER -> "undefined"

\* ---------------------------------------------------------------- store
\* One row shape for both tables; a rescue leaves userId at "none" and ships
\* empty, a rat leaves rats empty and firstLimpet at "none".  attrs is the
\* set of attribute keys a create / update call has written to the row.
IdsOf(type) == IF type = "rescues" THEN {"e1", "e2"} ELSE {"r1", "r2"}

Users == {"u1", "u2"}

NoRow ==
    [ exists |-> FALSE, createdAt |-> 0, rats |-> {}, firstLimpet |-> "none",
      userId |-> "none", ships |-> {}, attrs |-> {}, quotes |-> <<>> ]

\* databaseType.findOne({ where: { id } }) finds a row.
Found(st, type, id) == id \in IdsOf(type) /\ st[type][id].exists

Entity(st, type, id) == IF Found(st, type, id) THEN st[type][id] ELSE NoRow

FreeIds(st, type) == { i \in IdsOf(type) : ~st[type][i].exists }

\* Rescues.isSelf / Rats.isSelf ({ ctx, entity })
isSelfMutWindowInclusive(type, c, st, entity) ==
    IF type = "rescues" THEN
        IF c.user = "none" THEN FALSE
        ELSE IF (c.now - entity.createdAt) <= rescueAccessTime THEN TRUE
        ELSE LET isAssigned ==
                    \E rat \in entity.rats : Entity(st, "rats", rat).userId = c.user
                 isFirstLimpet ==
                    /\ entity.firstLimpet # "none"
                    /\ Entity(st, "rats", entity.firstLimpet).userId = c.user
             IN IF isAssigned \/ isFirstLimpet
                THEN Granted({"rescues.write"}, c.scopes)
                ELSE FALSE
    ELSE
        IF entity.userId = c.user
        THEN Granted({"rat.write.me"}, c.scopes)
        ELSE FALSE

isSelf(type, c, st, entity) ==
    IF type = "rescues" THEN
        IF c.user = "none" THEN FALSE
        ELSE IF (c.now - entity.createdAt) < rescueAccessTime THEN TRUE
        ELSE LET isAssigned ==
                    \E rat \in entity.rats : Entity(st, "rats", rat).userId = c.user
                 isFirstLimpet ==
                    /\ entity.firstLimpet # "none"
                    /\ Entity(st, "rats", entity.firstLimpet).userId = c.user
             IN IF isAssigned \/ isFirstLimpet
                THEN Granted({"rescues.write"}, c.scopes)
                ELSE FALSE
    ELSE
        IF entity.userId = c.user
        THEN Granted({"rat.write.me"}, c.scopes)
        ELSE FALSE

hasWritePermission(type, c, st, entity) ==
    IF isSelf(type, c, st, entity)
    THEN Granted({WriteMeScope(type), WriteScope(type)}, c.scopes)
    ELSE Granted({WriteScope(type)}, c.scopes)

\* ---------------------------------------------------- request payloads
\* A relationship payload `data`: an array of resource identifiers, one
\* resource identifier object, or null.  An identifier is
\* [type, hasId, id]; an "object" payload holds it as items[1].
Identifier(type, id) == [type |-> type, hasId |-> TRUE, id |-> id]
ArrayData(items) == [kind |-> "array", items |-> items]
ObjectData(item) == [kind |-> "object", items |-> <<item>>]
NullData == [kind |-> "null", items |-> <<>>]

\* A storage call as the collaborator sees it.
Call(op, type, id, keys, ids) ==
    [op |-> op, type |-> type, id |-> id, keys |-> keys, ids |-> ids]

\* What a handler (or a step of it) yields: status "ok" or the error thrown,
\* the error's source pointer / parameter, the storage calls issued, the
\* store they leave, and the id of the row returned.
Outcome(status, pointer, cs, st, returned) ==
    [status |-> status, pointer |-> pointer, calls |-> cs, store |-> st,
     returned |-> returned]

isValidJSONAPIObject(body) ==
    /\ body.hasData
    /\ body.typeIsString /\ body.type # ""
    /\ (body.hasAttributes \/ body.hasNestedRelationships)

\* getJSONAPIData({ ctx, type }): "ok" or the pointer of the error thrown.
getJSONAPIDataMutAnyType(c, type) ==
    IF ~c.body.hasData \/ ~isValidJSONAPIObject(c.body)
    THEN [status |-> "UnprocessableEntity", pointer |-> "/data"]
    ELSE IF ~c.body.hasAttributes
    THEN [status |-> "UnprocessableEntity", pointer |-> "/data/attributes"]
    ELSE [status |-> "ok", pointer |-> ""]

getJSONAPIData(c, type) ==
    IF ~c.body.hasData \/ ~isValidJSONAPIObject(c.body) \/ c.body.type # type
    THEN [status |-> "UnprocessableEntity", pointer |-> "/data"]
    ELSE IF ~c.body.hasAttributes
    THEN [status |-> "UnprocessableEntity", pointer |-> "/data/attributes"]
    ELSE [status |-> "ok", pointer |-> ""]

\* ------------------------------------------------- relationship changes
isValidOneRelationshipMutAnyType(type, data, relation) ==
    CASE data.kind = "object" -> data.items[1].hasId
      [] data.kind = "array" -> FALSE
      [] OTHER -> TRUE

isValidOneRelationship(type, data, relation) ==
    CASE data.kind = "object" ->
            data.items[1].hasId /\ data.items[1].type = relationTypes(type, relation)
      [] data.kind = "array" -> FALSE
      [] OTHER -> TRUE

isValidManyRelationship(type, item, relation) ==
    item.hasId /\ item.type = relationTypes(type, relation)

\* changeRelationship({ relationship }): the descriptor, or none
\* (UnsupportedMediaAPIError).  ops are the operations the descriptor defines.
changeRelationship(type, relationship) ==
    IF type = "rescues" /\ relationship = "rats"
    THEN [known |-> TRUE, many |-> TRUE, ops |-> {"add", "patch", "remove"}]
    ELSE IF type = "rescues" /\ relationship = "firstLimpet"
    THEN [known |-> TRUE, many |-> FALSE, ops |-> {"patch"}]
    ELSE IF type = "rats" /\ relationship = "user"
    THEN [known |-> TRUE, many |-> FALSE, ops |-> {"patch"}]
    ELSE [known |-> FALSE, many |-> FALSE, ops |-> {}]

\* changeRelationship.hasPermission(ctx, entity, ...).  The Rescues
\* descriptors read this.isSelf with `this` bound to the descriptor object,
\* which has no isSelf: the call throws a TypeError.
descriptorHasPermission(type, relationship, c) ==
    IF type = "rescues" THEN "TypeError"
    ELSE IF Granted({"rats.write"}, c.scopes) THEN "granted" ELSE "denied"

\* The descriptor's add / patch / remove: the storage call and its effect.
RelationCall(type, relationship, change, id, ids) ==
    CASE relationship = "rats" /\ change = "add" -> Call("addRats", type, id, {}, ids)
      [] relationship = "rats" /\ change = "patch" -> Call("setRats", type, id, {}, ids)
      [] relationship = "rats" /\ change = "remove" -> Call("removeRats", type, id, {}, ids)
      [] relationship = "firstLimpet" -> Call("setFirstLimpet", type, id, {}, ids)
      [] OTHER -> Call("setUser", type, id, {}, ids)

RelationEffect(st, call) ==
    LET row == st[call.type][call.id]
        one == IF call.ids = {} THEN "none" ELSE CHOOSE x \in call.ids : TRUE
    IN CASE call.op = "addRats" ->
              [st EXCEPT ![call.type][call.id].rats = row.rats \cup call.ids]
         [] call.op = "setRats" ->
              [st EXCEPT ![call.type][call.id].rats = call.ids]
         [] call.op = "removeRats" ->
              [st EXCEPT ![call.type][call.id].rats = row.rats \ call.ids]
         [] call.op = "setFirstLimpet" ->
              [st EXCEPT ![call.type][call.id].firstLimpet = one]
         [] call.op = "setUser" ->
              [st EXCEPT ![call.type][call.id].userId = one]
         [] OTHER -> st

generateRelationshipChange(type, c, st, data, id, change, relationship) ==
    LET d == changeRelationship(type, relationship)
        validOneRelationship == isValidOneRelationship(type, data, relationship)
        perm == descriptorHasPermission(type, relationship, c)
        items == data.items
        \* data.map: the first element that throws decides
        invalid == { i \in DOMAIN items :
                       ~isValidManyRelationship(type, items[i], relationship) }
    IN
    IF ~d.known THEN Outcome("UnsupportedMedia", "/relationships", <<>>, st, "")
    ELSE IF data.kind = "array" /\ d.many THEN
        IF items = <<>> THEN
            LET call == RelationCall(type, relationship, change, id, {})
            IN IF change \in d.ops
               THEN Outcome("ok", "", <<call>>, RelationEffect(st, call), "")
               ELSE Outcome("TypeError", "", <<>>, st, "")
        ELSE IF 1 \in invalid THEN Outcome("UnprocessableEntity", "/data", <<>>, st, "")
        ELSE IF perm = "TypeError" THEN Outcome("TypeError", "", <<>>, st, "")
        ELSE IF perm = "denied" THEN Outcome("Forbidden", "/data", <<>>, st, "")
        ELSE IF invalid # {} THEN Outcome("UnprocessableEntity", "/data", <<>>, st, "")
        ELSE LET call == RelationCall(type, relationship, change, id,
                                      { items[i].id : i \in DOMAIN items })
             IN IF change \in d.ops
                THEN Outcome("ok", "", <<call>>, RelationEffect(st, call), "")
                ELSE Outcome("TypeError", "", <<>>, st, "")
    ELSE IF validOneRelationship /\ ~d.many THEN
        IF perm = "TypeError" THEN Outcome("TypeError", "", <<>>, st, "")
        ELSE IF perm = "denied" THEN Outcome("Forbidden", "/data", <<>>, st, "")
        ELSE IF change \notin d.ops THEN Outcome("TypeError", "", <<>>, st, "")
        \* data.id with data = null
        ELSE IF data.kind = "null" THEN Outcome("TypeError", "", <<>>, st, "")
        ELSE LET call == RelationCall(type, relationship, change, id, {items[1].id})
             IN Outcome("ok", "", <<call>>, RelationEffect(st, call), "")
    ELSE Outcome("UnprocessableEntity", "/data", <<>>, st, "")

\* Object.entries(ctx.data.relationships).map(...): the entries are handled
\* in order, each issuing its storage call when it is reached; the first one
\* that throws ends the map.
RECURSIVE ApplyRelationships(_, _, _, _, _, _)
ApplyRelationships(type, c, st, id, change, rels) ==
    IF rels = <<>> THEN Outcome("ok", "", <<>>, st, "")
    ELSE LET r == generateRelationshipChange(type, c, st, Head(rels).data, id,
                                             change, Head(rels).name)
         IN IF r.status # "ok" THEN r
            ELSE LET rest == ApplyRelationships(type, c, r.store, id, change, Tail(rels))
                 IN Outcome(rest.status, rest.pointer, r.calls \o rest.calls,
                            rest.store, "")

\* ------------------------------------------------------------ APIResource
requireWritePermissionMutSkipped(type, c, st, entity) == TRUE

requireWritePermission(type, c, st, entity) == hasWritePermission(type, c, st, entity)

\* The keys handed to databaseType.create: { ...dataObj.attributes, ...overrideFields }
CreateKeys(attributes, overrideFields) == Range(attributes) \cup DOMAIN overrideFields

\* The relationships member APIResource.create / update read.
RequestRelationships(c) ==
    IF c.body.hasRelationships THEN c.body.relationships ELSE <<>>

\* APIResource.create({ ctx, databaseType, overrideFields })
create(type, c, st, overrideFields) ==
    LET dataObj == getJSONAPIData(c, type)
        access == validateCreateAccess(type, writePermissionsForFieldAccess(type),
                                       c.scopes, c.body.attributes)
        id == CHOOSE i \in FreeIds(st, type) : TRUE
        row == [ exists |-> TRUE, createdAt |-> c.now, rats |-> {},
                 firstLimpet |-> "none",
                 userId |-> IF "userId" \in DOMAIN overrideFields
                            THEN overrideFields["userId"] ELSE "none",
                 ships |-> {}, attrs |-> Range(c.body.attributes), quotes |-> <<>> ]
        created == [st EXCEPT ![type][id] = row]
        createCall == Call("create", type, id,
                           CreateKeys(c.body.attributes, overrideFields), {})
        rel == ApplyRelationships(type, c, created, id, "add", RequestRelationships(c))
    IN
    IF dataObj.status # "ok" THEN Outcome(dataObj.status, dataObj.pointer, <<>>, st, "")
    ELSE IF ~access.ok
    THEN Outcome("Forbidden", "/data/attributes/" \o access.pointer, <<>>, st, "")
    ELSE IF rel.status # "ok"
    THEN Outcome(rel.status, rel.pointer, <<createCall>> \o rel.calls, rel.store, "")
    ELSE Outcome("ok", "", <<createCall>> \o rel.calls
                             \o <<Call("findOne", type, id, {}, {})>>,
                 rel.store, id)

\* APIResource.update({ ctx, databaseType, updateSearch })
updateMutRollback(type, c, st) ==
    LET dataObj == getJSONAPIData(c, type)
        entity == Entity(st, type, c.id)
        find == Call("findOne", type, c.id, {}, {})
        access == validateUpdateAccess(type, writePermissionsForFieldAccess(type),
                                       c.scopes, isSelf(type, c, st, entity),
                                       c.body.attributes)
        updated == [st EXCEPT ![type][c.id].attrs = @ \cup Range(c.body.attributes)]
        updateCall == Call("update", type, c.id, Range(c.body.attributes), {})
        rel == ApplyRelationships(type, c, updated, c.id, "patch", RequestRelationships(c))
    IN
    IF c.id = "" THEN Outcome("BadRequest", "id", <<>>, st, "")
    ELSE IF dataObj.status # "ok"
    THEN Outcome(dataObj.status, dataObj.pointer, <<>>, st, "")
    ELSE IF ~Found(st, type, c.id) THEN Outcome("NotFound", "id", <<find>>, st, "")
    ELSE IF ~requireWritePermission(type, c, st, entity)
    THEN Outcome("Forbidden", "", <<find>>, st, "")
    ELSE IF ~access.ok
    THEN Outcome("Forbidden", "/data/attributes/" \o access.pointer, <<find>>, st, "")
    ELSE IF rel.status # "ok"
    THEN Outcome(rel.status, rel.pointer, <<find, updateCall>> \o rel.calls, st, "")
    ELSE Outcome("ok", "", <<find, updateCall>> \o rel.calls \o <<find>>,
                 rel.store, c.id)

update(type, c, st) ==
    LET dataObj == getJSONAPIData(c, type)
        entity == Entity(st, type, c.id)
        find == Call("findOne", type, c.id, {}, {})
        access == validateUpdateAccess(type, writePermissionsForFieldAccess(type),
                                       c.scopes, isSelf(type, c, st, entity),
                                       c.body.attributes)
        updated == [st EXCEPT ![type][c.id].attrs = @ \cup Range(c.body.attributes)]
        updateCall == Call("update", type, c.id, Range(c.body.attributes), {})
        rel == ApplyRelationships(type, c, updated, c.id, "patch", RequestRelationships(c))
    IN
    IF c.id = "" THEN Outcome("BadRequest", "id", <<>>, st, "")
    ELSE IF dataObj.status # "ok"
    THEN Outcome(dataObj.status, dataObj.pointer, <<>>, st, "")
    ELSE IF ~Found(st, type, c.id) THEN Outcome("NotFound", "id", <<find>>, st, "")
    ELSE IF ~requireWritePermission(type, c, st, entity)
    THEN Outcome("Forbidden", "", <<find>>, st, "")
    ELSE IF ~access.ok
    THEN Outcome("Forbidden", "/data/attributes/" \o access.pointer, <<find>>, st, "")
    ELSE IF rel.status # "ok"
    THEN Outcome(rel.status, rel.pointer, <<find, updateCall>> \o rel.calls, rel.store, "")
    ELSE Outcome("ok", "", <<find, updateCall>> \o rel.calls \o <<find>>,
                 rel.store, c.id)

\* APIResource.hasReadPermission({ connection, entity })
ReadScope(type) == type \o ".read"
ReadMeScope(type) == type \o ".read.me"

hasReadPermission(type, c, st, entity) ==
    IF isSelf(type, c, st, entity)
    THEN Granted({ReadMeScope(type), ReadScope(type)}, c.scopes)
    ELSE Granted({ReadScope(type)}, c.scopes)

requireReadPermission(type, c, st, entity) == hasReadPermission(type, c, st, entity)

\* The associations of a rat row fetched with Rat.scope('rescues'): the
\* rescues it is assigned to and the rescues it is first limpet of.
RatRescues(st, id) ==
    { e \in IdsOf("rescues") : st["rescues"][e].exists /\ id \in st["rescues"][e].rats }

RatFirstLimpet(st, id) ==
    { e \in IdsOf("rescues") :
        st["rescues"][e].exists /\ st["rescues"][e].firstLimpet = id }

\* The hasPermission callback Rats.delete hands to APIResource.delete.
RatsDeleteHasPermission(c, st, entity) ==
    IF Granted({"rats.write"}, c.scopes) THEN TRUE
    ELSE IF entity.userId # c.user THEN FALSE
    ELSE /\ entity.ships = {}
         /\ RatRescues(st, c.id) = {}
         /\ RatFirstLimpet(st, c.id) = {}

\* APIResource.delete({ ctx, databaseType, hasPermission }).  given: the
\* caller supplied a hasPermission callback; permissionResult: what it returns.
deleteMutBothGates(type, c, st, given, permissionResult) ==
    LET entity == Entity(st, type, c.id)
        find == Call("findOne", type, c.id, {}, {})
        destroy == Call("destroy", type, c.id, {}, {})
    IN
    IF c.id = "" THEN Outcome("BadRequest", "id", <<>>, st, "")
    ELSE IF ~Found(st, type, c.id) THEN Outcome("NotFound", "id", <<find>>, st, "")
    ELSE IF given /\ ~permissionResult THEN Outcome("Forbidden", "", <<find>>, st, "")
    ELSE IF ~requireWritePermission(type, c, st, entity)
    THEN Outcome("Forbidden", "", <<find>>, st, "")
    ELSE Outcome("ok", "", <<find, destroy>>, [st EXCEPT ![type][c.id] = NoRow], "")

delete(type, c, st, given, permissionResult) ==
    LET entity == Entity(st, type, c.id)
        find == Call("findOne", type, c.id, {}, {})
        destroy == Call("destroy", type, c.id, {}, {})
    IN
    IF c.id = "" THEN Outcome("BadRequest", "id", <<>>, st, "")
    ELSE IF ~Found(st, type, c.id) THEN Outcome("NotFound", "id", <<find>>, st, "")
    ELSE IF given /\ ~permissionResult THEN Outcome("Forbidden", "", <<find>>, st, "")
    ELSE IF ~given /\ ~requireWritePermission(type, c, st, entity)
    THEN Outcome("Forbidden", "", <<find>>, st, "")
    ELSE Outcome("ok", "", <<find, destroy>>, [st EXCEPT ![type][c.id] = NoRow], "")

\* entity[relationship]: the linkage a relationship view returns.
NoLinkage == [present |-> FALSE, ids |-> {}]

Linkage(entity, relationship) ==
    [ present |-> TRUE,
      ids |-> CASE relationship = "rats" -> entity.rats
                [] relationship = "firstLimpet" ->
                      IF entity.firstLimpet = "none" THEN {} ELSE {entity.firstLimpet}
                [] OTHER -> IF entity.userId = "none" THEN {} ELSE {entity.userId} ]

\* APIResource.relationshipView({ ctx, databaseType, relationship })
relationshipViewMutNoGate(type, c, st, relationship) ==
    LET find == Call("findOne", type, c.id, {}, {})
    IN
    IF c.id = "" THEN Outcome("BadRequest", "id", <<>>, st, "")
    ELSE IF ~Found(st, type, c.id) THEN Outcome("NotFound", "id", <<find>>, st, "")
    ELSE Outcome("ok", "", <<find>>, st, c.id)

relationshipView(type, c, st, relationship) ==
    LET entity == Entity(st, type, c.id)
        find == Call("findOne", type, c.id, {}, {})
    IN
    IF c.id = "" THEN Outcome("BadRequest", "id", <<>>, st, "")
    ELSE IF ~Found(st, type, c.id) THEN Outcome("NotFound", "id", <<find>>, st, "")
    ELSE IF ~requireReadPermission(type, c, st, entity)
    THEN Outcome("Forbidden", "", <<find>>, st, "")
    ELSE Outcome("ok", "", <<find>>, st, c.id)

\* APIResource.relationshipChange({ ctx, databaseType, change, relationship })
relationshipChangeMutGateLast(type, c, st, change, relationship) ==
    LET entity == Entity(st, type, c.id)
        find == Call("findOne", type, c.id, {}, {})
        rel == generateRelationshipChange(type, c, st, c.data, c.id, change,
                                          relationship)
    IN
    IF c.id = "" THEN Outcome("BadRequest", "id", <<>>, st, "")
    ELSE IF ~Found(st, type, c.id) THEN Outcome("NotFound", "id", <<find>>, st, "")
    ELSE IF rel.status # "ok"
    THEN Outcome(rel.status, rel.pointer, <<find>> \o rel.calls, rel.store, "")
    ELSE IF ~requireWritePermission(type, c, st, entity)
    THEN Outcome("Forbidden", "", <<find>> \o rel.calls, rel.store, "")
    ELSE Outcome("ok", "", <<find>> \o rel.calls \o <<find>>, rel.store, c.id)

relationshipChange(type, c, st, change, relationship) ==
    LET entity == Entity(st, type, c.id)
        find == Call("findOne", type, c.id, {}, {})
        rel == generateRelationshipChange(type, c, st, c.data, c.id, change,
                                          relationship)
    IN
    IF c.id = "" THEN Outcome("BadRequest", "id", <<>>, st, "")
    ELSE IF ~Found(st, type, c.id) THEN Outcome("NotFound", "id", <<find>>, st, "")
    ELSE IF ~requireWritePermission(type, c, st, entity)
    THEN Outcome("Forbidden", "", <<find>>, st, "")
    ELSE IF rel.status # "ok"
    THEN Outcome(rel.status, rel.pointer, <<find>> \o rel.calls, rel.store, "")
    ELSE Outcome("ok", "", <<find>> \o rel.calls \o <<find>>, rel.store, c.id)

\* ------------------------------------------------------------ decorators
\* @authenticated, @permissions(...perms), @parameters('id'): "ok" or the
\* error thrown before the endpoint is entered.
authenticated(c) == c.user # "none"

permissions(perms, c) == Granted(perms, c.scopes)

parameters(c) == c.id # "" \/ c.queryHasId

Guarded(c, st, perms, needId, inner) ==
    IF ~authenticated(c) THEN Outcome("Unauthorized", "", <<>>, st, "")
    ELSE IF perms # {} /\ ~permissions(perms, c)
    THEN Outcome("Forbidden", "", <<>>, st, "")
    ELSE IF needId /\ ~parameters(c) THEN Outcome("BadRequest", "id", <<>>, st, "")
    ELSE inner

\* ------------------------------------------------------- request inputs
\* The attribute keys requests are built from: per resource a group-tier
\* field, a field of a stricter tier, and a key the policy map lacks.
AttrKeys(type) ==
    IF type = "rescues" THEN {"notes", "title", "bogus"}
    ELSE {"name", "frontierId", "userId"}

\* The scopes a resource's handlers test.
ScopesOf(type) ==
    IF type = "rescues" THEN {"rescues.write", "rescues.write.me"}
    ELSE {"rats.write", "rats.write.me", "rat.write.me", "rats.internal"}

\* Date.now() at the request, in hours since the stored rescue was created.
Nows(type) ==
    IF type = "rescues" THEN {rescueAccessHours - 1, rescueAccessHours} ELSE {0}

Rel(name, data) == [name |-> name, data |-> data]

\* The relationships objects requests carry (top level, and inside data).
RelationshipInputs(type) ==
    IF type = "rescues"
    THEN { <<Rel("rats", ArrayData(<<>>))>>,
           <<Rel("rats", ArrayData(<<Identifier("rats", "r1")>>))>> }
    ELSE { <<Rel("user", ObjectData(Identifier("users", "u2")))>>,
           <<Rel("user", ArrayData(<<>>))>> }

NestedInputs(type) ==
    IF type = "rescues"
    THEN { <<Rel("rats", ArrayData(<<Identifier("rats", "r1")>>))>> }
    ELSE { <<Rel("user", ObjectData(Identifier("users", "u2")))>> }

Body(hasData, type, typeIsString, hasAttributes, attributes, nested, rels) ==
    [ hasData |-> hasData, type |-> type, typeIsString |-> typeIsString,
      hasAttributes |-> hasAttributes, attributes |-> attributes,
      hasNestedRelationships |-> nested # <<>>, nestedRelationships |-> nested,
      hasRelationships |-> rels # <<>>, relationships |-> rels ]

OtherType(type) == IF type = "rescues" THEN "rats" ELSE "rescues"

Bodies(type) ==
    { Body(TRUE, type, TRUE, TRUE, a, n, r) :
        a \in KeySeqs(AttrKeys(type), MaxAttrs),
        n \in NestedInputs(type) \cup {<<>>},
        r \in RelationshipInputs(type) \cup {<<>>} }
    \cup
    { Body(FALSE, "", FALSE, FALSE, <<>>, <<>>, <<>>),
      Body(TRUE, OtherType(type), TRUE, TRUE, <<>>, <<>>, <<>>),
      Body(TRUE, type, FALSE, TRUE, <<>>, <<>>, <<>>),
      Body(TRUE, "", TRUE, TRUE, <<>>, <<>>, <<>>),
      Body(TRUE, type, TRUE, FALSE, <<>>, <<>>, <<>>) }
    \cup
    { Body(TRUE, type, TRUE, FALSE, <<>>, n, <<>>) : n \in NestedInputs(type) }

Ctx(op, type, user, scopes, id, queryHasId, now, body) ==
    [ op |-> op, resource |-> type, user |-> user, scopes |-> scopes, id |-> id,
      queryHasId |-> queryHasId, now |-> now, body |-> body ]

IdleCtx ==
    Ctx("none", "none", "none", {}, "", FALSE, 0,
        Body(FALSE, "", FALSE, FALSE, <<>>, <<>>, <<>>))

ExistingId(type) == IF type = "rescues" THEN "e1" ELSE "r1"

\* The requests of an authenticated requester "u1", and one of a requester
\* who is not authenticated.
CreateRequests(type) ==
    { Ctx("create", type, "u1", s, "", FALSE, n, b) :
        s \in SUBSET ScopesOf(type), n \in Nows(type), b \in Bodies(type) }
    \cup
    { Ctx("create", type, "none", {}, "", FALSE, n, b) :
        n \in Nows(type),
        b \in { Body(TRUE, type, TRUE, TRUE, <<>>, <<>>, <<>>) } }

UpdateRequests(type) ==
    { Ctx("update", type, "u1", s, i, FALSE, n, b) :
        s \in SUBSET ScopesOf(type), i \in {ExistingId(type), "missing"},
        n \in Nows(type), b \in Bodies(type) }
    \cup
    { Ctx("update", type, u, {WriteScope(type)}, "", q, n, b) :
        u \in {"u1", "none"}, q \in BOOLEAN, n \in Nows(type),
        b \in { Body(TRUE, type, TRUE, TRUE, <<>>, <<>>, <<>>) } }

NoFields == [k \in {} |-> ""]

IdleResult == [status |-> "idle", pointer |-> "", returned |-> ""]

ResultOf(r) == [status |-> r.status, pointer |-> r.pointer, returned |-> r.returned]

\* --------------------------------------------------------------- actions
Idle == ctx.op = "none"

\* @POST('/rescues') @authenticated @permissions('rescues.write') Rescues.create
RescuesCreate ==
    /\ focus = "rescues" /\ Idle /\ FreeIds(store, "rescues") # {}
    /\ \E c \in CreateRequests("rescues") :
        LET r == Guarded(c, store, {"rescues.write"}, FALSE,
                         create("rescues", c, store, NoFields))
        IN /\ ctx' = c
           /\ calls' = r.calls
           /\ result' = ResultOf(r)
           /\ store' = r.store
    /\ UNCHANGED <<focus, va, doc, inflight>>

\* @POST('/rats') @authenticated Rats.create, overrideFields { userId }
RatsCreate ==
    /\ focus = "rats" /\ Idle /\ FreeIds(store, "rats") # {}
    /\ \E c \in CreateRequests("rats") :
        LET r == Guarded(c, store, {}, FALSE,
                         create("rats", c, store, [userId |-> c.user]))
        IN /\ ctx' = c
           /\ calls' = r.calls
           /\ result' = ResultOf(r)
           /\ store' = r.store
    /\ UNCHANGED <<focus, va, doc, inflight>>

\* @PUT('/rescues/:id') @authenticated @parameters('id') Rescues.update.
\* After super.update the handler awaits an outbound HTTP fetch; when that
\* rejects, the request fails although the update is stored.
RescuesUpdate ==
    /\ focus = "rescues" /\ Idle
    /\ \E c \in UpdateRequests("rescues"), fetchOk \in BOOLEAN :
        LET r == Guarded(c, store, {}, TRUE, update("rescues", c, store))
        IN /\ (~fetchOk => r.status = "ok")
           /\ ctx' = c
           /\ calls' = r.calls
           /\ result' = IF fetchOk THEN ResultOf(r)
                        ELSE [status |-> "Error", pointer |-> "", returned |-> ""]
           /\ store' = r.store
    /\ UNCHANGED <<focus, va, doc, inflight>>

\* @PUT('/rats') @authenticated @parameters('id') Rats.update
RatsUpdate ==
    /\ focus = "rats" /\ Idle
    /\ \E c \in UpdateRequests("rats") :
        LET r == Guarded(c, store, {}, TRUE, update("rats", c, store))
        IN /\ ctx' = c
           /\ calls' = r.calls
           /\ result' = ResultOf(r)
           /\ store' = r.store
    /\ UNCHANGED <<focus, va, doc, inflight>>

\* The response is sent; the request's context dies with it.
Respond ==
    /\ ~Idle
    /\ ctx' = IdleCtx /\ calls' = <<>> /\ result' = IdleResult
    /\ UNCHANGED <<focus, store, va, doc, inflight>>

\* ------------------------------------------------------------------ Init
Row(createdAt, rats, firstLimpet, userId) ==
    [ exists |-> TRUE, createdAt |-> createdAt, rats |-> rats,
      firstLimpet |-> firstLimpet, userId |-> userId, ships |-> {},
      attrs |-> {}, quotes |-> <<>> ]

\* A stored rescue e1, created at hour 0, with or without rat r1 assigned or
\* as first limpet, and a stored rat r1 owned by either user.
InitStores ==
    { [ rescues |-> [ e1 |-> Row(0, rats, fl, "none"), e2 |-> NoRow ],
        rats |-> [ r1 |-> Row(0, {}, "none", owner), r2 |-> NoRow ] ] :
        rats \in {{}, {"r1"}}, fl \in {"none", "r1"}, owner \in Users }

Init ==
    /\ focus \in Types
    /\ store \in InitStores
    /\ (focus = "rats" =>
            store["rescues"]["e1"].rats = {} /\ store["rescues"]["e1"].firstLimpet = "none")
    /\ ctx = IdleCtx /\ calls = <<>> /\ result = IdleResult
    /\ va = IdleVa /\ doc = IdleDoc /\ inflight = NoRequests

Next ==
    \/ RescuesCreate
    \/ RatsCreate
    \/ RescuesUpdate
    \/ RatsUpdate
    \/ Respond

Spec == Init /\ [][Next]_vars

\* The field-access validations alone, over every policy of two fields.
InitAccess ==
    /\ focus = "none"
    /\ store \in { st \in InitStores :
                     /\ st["rescues"]["e1"].rats = {}
                     /\ st["rescues"]["e1"].firstLimpet = "none"
                     /\ st["rats"]["r1"].userId = "u1" }
    /\ ctx = IdleCtx /\ calls = <<>> /\ result = IdleResult
    /\ va = IdleVa /\ doc = IdleDoc /\ inflight = NoRequests

NextAccess == ValidateCreate \/ ValidateUpdate

SpecAccess == InitAccess /\ [][NextAccess]_vars

\* ------------------------------------------------------------------ meta
\* Keys of a caller-supplied meta object: one that is also a pagination
\* counter and one that is not; and the numbers a meta entry holds.
MetaKeys == {"count", "note"}
MaxCount == 1
MetaObjects == UNION { [K -> 0..MaxCount] : K \in SUBSET MetaKeys }

\* {}
EmptyObject == [k \in {} |-> 0]

\* { ...a, ...b }
Spread(a, b) ==
    [k \in DOMAIN a \cup DOMAIN b |-> IF k \in DOMAIN b THEN b[k] ELSE a[k]]

\* Document: the constructor keeps meta in #meta; get meta () returns {}.
documentMeta(meta) == EmptyObject

\* query._limit || 0: a query field is [has, value], undefined when ~has.
OrZero(v) == IF v.has THEN v.value ELSE 0

Undefined == [has |-> FALSE, value |-> 0]

\* new Meta({ result, query, additionalParameters }).meta; an array result
\* has a length, a findAndCountAll result has rows and a count.
Meta(res, hasQuery, query, additionalParameters) ==
    LET counters ==
            IF ~hasQuery THEN EmptyObject
            ELSE IF res.isArray
            THEN [k \in {"count", "limit", "offset"} |->
                    IF k = "count" THEN res.length
                    ELSE IF k = "limit" THEN OrZero(query.limit)
                    ELSE OrZero(query.offset)]
            ELSE [k \in {"count", "limit", "offset", "total"} |->
                    IF k = "count" THEN res.length
                    ELSE IF k = "limit" THEN OrZero(query.limit)
                    ELSE IF k = "offset" THEN OrZero(query.offset)
                    ELSE res.count]
    IN Spread(counters, additionalParameters)

MetaResults == [isArray : BOOLEAN, length : 0..MaxCount, count : 0..MaxCount]

QueryFields == {Undefined} \cup { [has |-> TRUE, value |-> v] : v \in 0..MaxCount }

MetaQueries == [limit : QueryFields, offset : QueryFields]

MetaDoc(op, given, res, hasQuery, query, rendered) ==
    [ op |-> op, given |-> given, result |-> res, hasQuery |-> hasQuery,
      query |-> query, meta |-> rendered ]

\* A Document constructed with a meta object renders its meta member.
RenderMeta ==
    /\ doc.op = "none"
    /\ \E meta \in MetaObjects :
        doc' = MetaDoc("documentMeta", meta, [isArray |-> TRUE, length |-> 0, count |-> 0],
                       FALSE, [limit |-> Undefined, offset |-> Undefined],
                       documentMeta(meta))
    /\ UNCHANGED <<focus, store, ctx, calls, result, va, inflight>>

\* A Meta is constructed for a result, with or without a query.
BuildMeta ==
    /\ doc.op = "none"
    /\ \E res \in MetaResults, hasQuery \in BOOLEAN, query \in MetaQueries,
          additionalParameters \in MetaObjects :
        /\ (~hasQuery => query = [limit |-> Undefined, offset |-> Undefined])
        /\ doc' = MetaDoc("Meta", additionalParameters, res, hasQuery, query,
                          Meta(res, hasQuery, query, additionalParameters))
    /\ UNCHANGED <<focus, store, ctx, calls, result, va, inflight>>

\* The views and the Document envelope alone.
InitDoc == InitAccess

NextDoc == RenderView \/ RenderDocument \/ RenderMeta \/ BuildMeta

SpecDoc == InitDoc /\ [][NextDoc]_vars

\* ------------------------------------ delete and relationship endpoints
\* Longest array of resource identifiers a relationship payload carries.
MaxTargets == 2

\* The resource identifiers many-relationship payloads are built from: two
\* rats, an identifier of another type, and one that lacks an id.
TargetItems ==
    { Identifier("rats", "r1"), Identifier("rats", "r2"), Identifier("users", "r1"),
      [type |-> "rats", hasId |-> FALSE, id |-> ""] }

\* ctx.data.data of a relationship request on a many relation.
ManyPayloads ==
    { ArrayData(items) : items \in KeySeqs(TargetItems, MaxTargets) }
    \cup { NullData, ObjectData(Identifier("rats", "r1")) }

\* ctx.data.data of a relationship request on a one relation whose target
\* type is target.
OnePayloads(target, ids) ==
    { ObjectData(Identifier(target, i)) : i \in ids }
    \cup { NullData,
           ObjectData(Identifier("wrong-type", CHOOSE i \in ids : TRUE)),
           ObjectData([type |-> target, hasId |-> FALSE, id |-> ""]),
           ArrayData(<<>>),
           ArrayData(<<Identifier(target, CHOOSE i \in ids : TRUE)>>) }

EndpointCtx(op, type, user, scopes, id, queryHasId, now, relationship, change, data) ==
    [ op |-> op, resource |-> type, user |-> user, scopes |-> scopes, id |-> id,
      queryHasId |-> queryHasId, now |-> now,
      body |-> Body(FALSE, "", FALSE, FALSE, <<>>, <<>>, <<>>),
      relationship |-> relationship, change |-> change, data |-> data ]

\* The scopes the read gate and the write gate test, per resource.
ReadScopesOf(type) ==
    IF type = "rescues" THEN {"rescues.read", "rescues.read.me", "rescues.write"}
    ELSE {"rats.read", "rats.read.me", "rat.write.me"}

WriteScopesOf(type) ==
    IF type = "rescues" THEN {"rescues.write", "rescues.write.me"}
    ELSE {"rats.write", "rats.write.me", "rat.write.me"}

RequestIds(type) == {ExistingId(type), "missing", ""}

DeleteRequests(type) ==
    { EndpointCtx("delete", type, "u1", s, i, q, n, "", "", NullData) :
        s \in SUBSET WriteScopesOf(type), i \in RequestIds(type),
        q \in (IF type = "rats" THEN BOOLEAN ELSE {FALSE}), n \in Nows(type) }
    \cup
    { EndpointCtx("delete", type, "none", {}, ExistingId(type), FALSE, n, "", "",
                  NullData) : n \in Nows(type) }

ViewRequests(type, relationship) ==
    { EndpointCtx("relationshipView", type, "u1", s, i, FALSE, n, relationship, "",
                  NullData) :
        s \in SUBSET ReadScopesOf(type), i \in RequestIds(type), n \in Nows(type) }
    \cup
    { EndpointCtx("relationshipView", type, "none", {}, ExistingId(type), FALSE, n,
                  relationship, "", NullData) : n \in Nows(type) }

ChangeRequests(type, relationship, change, payloads) ==
    { EndpointCtx("relationshipChange", type, "u1", s, i, FALSE, n, relationship,
                  change, d) :
        s \in SUBSET WriteScopesOf(type), i \in RequestIds(type), n \in Nows(type),
        d \in payloads }
    \cup
    { EndpointCtx("relationshipChange", type, "none", {}, ExistingId(type), FALSE, n,
                  relationship, change, NullData) : n \in Nows(type) }

EndpointResult(r, linkage) ==
    [status |-> r.status, pointer |-> r.pointer, returned |-> r.returned,
     linkage |-> linkage]

\* @DELETE('/rescues/:id') @authenticated @permissions('rescues.write')
RescuesDelete ==
    /\ focus = "rescues" /\ Idle
    /\ \E c \in DeleteRequests("rescues") :
        LET r == Guarded(c, store, {"rescues.write"}, FALSE,
                         delete("rescues", c, store, FALSE, FALSE))
        IN /\ ctx' = c
           /\ calls' = r.calls
           /\ result' = EndpointResult(r, NoLinkage)
           /\ store' = r.store
    /\ UNCHANGED <<focus, va, doc, inflight>>

\* @DELETE('/rats/:id') @authenticated @parameters('id'), hasPermission given
RatsDelete ==
    /\ focus = "rats" /\ Idle
    /\ \E c \in DeleteRequests("rats") :
        LET r == Guarded(c, store, {}, TRUE,
                         delete("rats", c, store, TRUE,
                                RatsDeleteHasPermission(c, store,
                                                        Entity(store, "rats", c.id))))
        IN /\ ctx' = c
           /\ calls' = r.calls
           /\ result' = EndpointResult(r, NoLinkage)
           /\ store' = r.store
    /\ UNCHANGED <<focus, va, doc, inflight>>

\* A relationship view endpoint: @GET @authenticated, this.relationshipView.
ViewEndpoint(type, relationship) ==
    /\ Idle
    /\ \E c \in ViewRequests(type, relationship) :
        LET r == Guarded(c, store, {}, FALSE,
                         relationshipView(type, c, store, relationship))
        IN /\ ctx' = c
           /\ calls' = r.calls
           /\ result' = EndpointResult(r,
                            IF r.status = "ok"
                            THEN Linkage(Entity(store, type, c.id), relationship)
                            ELSE NoLinkage)
           /\ store' = r.store
    /\ UNCHANGED <<focus, va, doc, inflight>>

\* A relationship change endpoint: @authenticated, this.relationshipChange.
ChangeEndpoint(type, relationship, change, payloads) ==
    /\ Idle
    /\ \E c \in ChangeRequests(type, relationship, change, payloads) :
        LET r == Guarded(c, store, {}, FALSE,
                         relationshipChange(type, c, store, change, relationship))
        IN /\ ctx' = c
           /\ calls' = r.calls
           /\ result' = EndpointResult(r,
                            IF r.status = "ok"
                            THEN Linkage(Entity(r.store, type, c.id), relationship)
                            ELSE NoLinkage)
           /\ store' = r.store
    /\ UNCHANGED <<focus, va, doc, inflight>>

\* @GET('/rescues/:id/relationships/rats')
relationshipRatsView ==
    /\ focus = "rescues"
    /\ ViewEndpoint("rescues", "rats")

\* @POST('/rescues/:id/relationships/rats')
relationshipRatsCreate ==
    /\ focus = "rescues"
    /\ ChangeEndpoint("rescues", "rats", "add", ManyPayloads)

\* @PATCH('/rescues/:id/relationships/rats')
relationshipRatsPatch ==
    /\ focus = "rescues"
    /\ ChangeEndpoint("rescues", "rats", "patch", ManyPayloads)

\* @DELETE('/rescues/:id/relationships/rats')
relationshipRatsDelete ==
    /\ focus = "rescues"
    /\ ChangeEndpoint("rescues", "rats", "remove", ManyPayloads)

\* @GET('/rescues/:id/relationships/firstLimpet')
relationshipFirstLimpetView ==
    /\ focus = "rescues"
    /\ ViewEndpoint("rescues", "firstLimpet")

\* @PATCH('/rescues/:id/relationships/firstLimpet')
relationshipFirstLimpetPatch ==
    /\ focus = "rescues"
    /\ ChangeEndpoint("rescues", "firstLimpet", "patch", OnePayloads("rats", {"r1", "r2"}))

\* @GET('/rats/:id/relationships/user')
relationshipUserView ==
    /\ focus = "rats"
    /\ ViewEndpoint("rats", "user")

\* @PATCH('/rats/:id/relationships/user')
relationshipUserPatch ==
    /\ focus = "rats"
    /\ ChangeEndpoint("rats", "user", "patch", OnePayloads("users", Users))

\* A stored rescue e1 and a stored rat r1; the rat may own a ship.
InitEndpoints ==
    /\ focus \in Types
    /\ \E st \in InitStores, ships \in {{}, {"s1"}} :
         /\ (focus = "rescues" => ships = {})
         /\ store = [st EXCEPT !["rats"]["r1"].ships = ships]
    /\ ctx = IdleCtx /\ calls = <<>> /\ result = IdleResult
    /\ va = IdleVa /\ doc = IdleDoc /\ inflight = NoRequests

NextEndpoints ==
    \/ RescuesDelete
    \/ RatsDelete
    \/ relationshipRatsView
    \/ relationshipRatsCreate
    \/ relationshipRatsPatch
    \/ relationshipRatsDelete
    \/ relationshipFirstLimpetView
    \/ relationshipFirstLimpetPatch
    \/ relationshipUserView
    \/ relationshipUserPatch
    \/ Respond

SpecEndpoints == InitEndpoints /\ [][NextEndpoints]_vars

\* ------------------------------------------- legacy rescue controller
\* RESCUE_ACCESS_TIME, in hours (the source counts milliseconds).
RESCUE_ACCESS_TIME == 1

selfWriteAllowedPermissions == {"rescue.write.me", "rescue.write"}

\* user.data.relationships.rats.data: the rats of the requesting user.
UserRats(st, user) ==
    { r \in IdsOf("rats") : st["rats"][r].exists /\ st["rats"][r].userId = user }

\* getRescuePermissionType(rescue, user)
getRescuePermissionType(rescue, c, st) ==
    IF /\ c.user # "none"
       /\ (rescue.createdAt - c.now) < RESCUE_ACCESS_TIME
       /\ \E rat \in UserRats(st, c.user) :
              rat \in rescue.rats \/ rescue.firstLimpet = rat
    THEN selfWriteAllowedPermissions
    ELSE {"rescue.write"}

\* Permission.require(permission, user, scope): the user is known and the
\* granted scope holds one of the permissions; the handler mutates nothing
\* otherwise.
PermissionRequire(permission, c) == c.user # "none" /\ Granted(permission, c.scopes)

\* The storage calls and the effect of the legacy assign / unassign / patch
\* on the rats of rescue id: one addRat / removeRat per entry, one setRats.
LegacyCalls(change, id, items) ==
    CASE change = "add" ->
            [ i \in DOMAIN items |-> Call("addRat", "rescues", id, {}, {items[i].id}) ]
      [] change = "remove" ->
            [ i \in DOMAIN items |-> Call("removeRat", "rescues", id, {}, {items[i].id}) ]
      [] OTHER ->
            << Call("setRats", "rescues", id, {},
                    { items[i].id : i \in DOMAIN items }) >>

LegacyEffect(st, change, id, items) ==
    LET ids == { items[i].id : i \in DOMAIN items }
        rats == st["rescues"][id].rats
    IN [st EXCEPT !["rescues"][id].rats =
            CASE change = "add" -> rats \cup ids
              [] change = "remove" -> rats \ ids
              [] OTHER -> ids ]

\* Rescues.assign / Rescues.unassign / Rescues.patch (ctx) of the legacy
\* controller; c.data is ctx.data after the { data } wrapper is taken off.
LegacyChangeMutAppend(c, st, change) ==
    LET rescue == Entity(st, "rescues", c.id)
        find == Call("findOne", "rescues", c.id, {}, {})
        items == c.data.items
        invalid == { i \in DOMAIN items :
                       items[i].type # "rats" \/ ~items[i].hasId }
        after == LegacyEffect(st, "add", c.id, items)
    IN
    IF c.id = "" THEN Outcome("ok", "", <<>>, st, "")
    ELSE IF ~Found(st, "rescues", c.id) THEN Outcome("NotFound", "id", <<find>>, st, "")
    ELSE IF ~PermissionRequire(getRescuePermissionType(rescue, c, st), c)
    THEN Outcome("Forbidden", "", <<find>>, st, "")
    ELSE IF c.data.kind # "array" THEN Outcome("TypeError", "", <<find>>, st, "")
    ELSE IF change = "patch" /\ invalid # {}
    THEN Outcome("BadRequest", "", <<find>>, st, "")
    ELSE Outcome("ok", "", <<find>> \o LegacyCalls(change, c.id, items) \o <<find>>,
                 after, c.id)

LegacyChange(c, st, change) ==
    LET rescue == Entity(st, "rescues", c.id)
        find == Call("findOne", "rescues", c.id, {}, {})
        items == c.data.items
        invalid == { i \in DOMAIN items :
                       items[i].type # "rats" \/ ~items[i].hasId }
        after == LegacyEffect(st, change, c.id, items)
    IN
    IF c.id = "" THEN Outcome("ok", "", <<>>, st, "")
    ELSE IF ~Found(st, "rescues", c.id) THEN Outcome("NotFound", "id", <<find>>, st, "")
    ELSE IF ~PermissionRequire(getRescuePermissionType(rescue, c, st), c)
    THEN Outcome("Forbidden", "", <<find>>, st, "")
    ELSE IF c.data.kind # "array" THEN Outcome("TypeError", "", <<find>>, st, "")
    ELSE IF change = "patch" /\ invalid # {}
    THEN Outcome("BadRequest", "", <<find>>, st, "")
    ELSE Outcome("ok", "", <<find>> \o LegacyCalls(change, c.id, items) \o <<find>>,
                 after, c.id)

\* The entries assign / unassign are called with name rats.
LegacyRatLists ==
    { ArrayData(items) :
        items \in KeySeqs({Identifier("rats", "r1"), Identifier("rats", "r2")},
                          MaxTargets) }
    \cup { NullData, ObjectData(Identifier("rats", "r1")) }

LegacyRequests(change, payloads) ==
    { EndpointCtx("legacy", "rescues", "u1", s, i, FALSE, n, "rats", change, d) :
        s \in SUBSET selfWriteAllowedPermissions, i \in RequestIds("rescues"),
        n \in Nows("rescues"), d \in payloads }
    \cup
    { EndpointCtx("legacy", "rescues", "none", {}, "e1", FALSE, n, "rats", change,
                  ArrayData(<<>>)) : n \in Nows("rescues") }

LegacyEndpoint(change, payloads) ==
    /\ Idle
    /\ \E c \in LegacyRequests(change, payloads) :
        LET r == LegacyChange(c, store, change)
        IN /\ ctx' = c
           /\ calls' = r.calls
           /\ result' = EndpointResult(r,
                            IF r.status = "ok" /\ r.returned # ""
                            THEN Linkage(Entity(r.store, "rescues", c.id), "rats")
                            ELSE NoLinkage)
           /\ store' = r.store
    /\ UNCHANGED <<focus, va, doc, inflight>>

LegacyAssign ==
    /\ focus = "rescues"
    /\ LegacyEndpoint("add", LegacyRatLists)

LegacyUnassign ==
    /\ focus = "rescues"
    /\ LegacyEndpoint("remove", LegacyRatLists)

LegacyPatch ==
    /\ focus = "rescues"
    /\ LegacyEndpoint("patch", ManyPayloads)

\* Every handler that changes or reads the rats of a rescue.
InitLinkage ==
    /\ focus = "rescues"
    /\ store \in InitStores
    /\ ctx = IdleCtx /\ calls = <<>> /\ result = IdleResult
    /\ va = IdleVa /\ doc = IdleDoc /\ inflight = NoRequests

NextLinkage ==
    \/ relationshipRatsView
    \/ relationshipRatsCreate
    \/ relationshipRatsPatch
    \/ relationshipRatsDelete
    \/ LegacyAssign
    \/ LegacyUnassign
    \/ LegacyPatch
    \/ Respond

SpecLinkage == InitLinkage /\ [][NextLinkage]_vars

\* ------------------------------------------- field-requiring decorators
\* Most fields a decorator lists.
MaxFields == 3

\* Field names: those Login.login requires, and the id of the routes.
FieldNames == {"email", "password", "id"}

\* fields.filter(...): the fields the predicate keeps, in declaration order.
RECURSIVE Filter(_, _)
Filter(fields, missing) ==
    IF fields = <<>> THEN <<>>
    ELSE (IF Head(fields) \in missing THEN <<Head(fields)>> ELSE <<>>)
         \o Filter(Tail(fields), missing)

\* new BadRequestAPIError({ parameter }) / ({ pointer })
BadRequestAPIError(source, value) ==
    [status |-> "BadRequest", source |-> source, value |-> value]

\* What a decorated endpoint does with one call: the array it throws, or
\* the arguments of every invocation of the wrapped endpoint.
Decorated(thrown, invocations) == [thrown |-> thrown, invocations |-> invocations]

\* parameters(...fields): a field is missing when it is a key of neither
\* ctx.params nor ctx.query.
parametersDecorator(fields, c) ==
    LET missingFields ==
            Filter(fields, { f \in Range(fields) : f \notin c.params /\ f \notin c.query })
    IN IF Len(missingFields) > 0
       THEN Decorated([i \in DOMAIN missingFields |->
                          BadRequestAPIError("parameter", missingFields[i])], <<>>)
       ELSE Decorated(<<>>, <<c>>)

requiredMutFirstOnly(fields, c) ==
    LET missingFields == Filter(fields, { f \in Range(fields) : f \notin c.data })
    IN IF Len(missingFields) > 0
       THEN Decorated(<<BadRequestAPIError("pointer",
                          <<"data", "attributes", missingFields[1]>>)>>, <<>>)
       ELSE Decorated(<<>>, <<c>>)

\* required(...fields): a field is missing when ctx.data has no own property
\* of that name.  The pointer is `/data/attributes/${field}`.
required(fields, c) ==
    LET missingFields == Filter(fields, { f \in Range(fields) : f \notin c.data })
    IN IF Len(missingFields) > 0
       THEN Decorated([i \in DOMAIN missingFields |->
                          BadRequestAPIError("pointer",
                              <<"data", "attributes", missingFields[i]>>)], <<>>)
       ELSE Decorated(<<>>, <<c>>)

\* The context a decorated endpoint is called with: the keys of ctx.params,
\* ctx.query and ctx.data.
FieldCtx(params, query, data) == [params |-> params, query |-> query, data |-> data]

FieldCall(op, fields, c, r) ==
    [ op |-> op, fields |-> fields, args |-> c, thrown |-> r.thrown,
      invocations |-> r.invocations ]

\* One decorated call per run: the decorator's field list and the context
\* are drawn when it is called.
CallParameters ==
    /\ va.op = "none"
    /\ \E fields \in KeySeqs(FieldNames, MaxFields),
          params \in SUBSET FieldNames, query \in SUBSET FieldNames :
        LET c == FieldCtx(params, query, {})
        IN va' = FieldCall("parameters", fields, c, parametersDecorator(fields, c))
    /\ UNCHANGED <<focus, store, ctx, calls, result, doc, inflight>>

CallRequired ==
    /\ va.op = "none"
    /\ \E fields \in KeySeqs(FieldNames, MaxFields), data \in SUBSET FieldNames :
        LET c == FieldCtx({}, {}, data)
        IN va' = FieldCall("required", fields, c, required(fields, c))
    /\ UNCHANGED <<focus, store, ctx, calls, result, doc, inflight>>

InitDecorators == InitAccess

NextDecorators == CallParameters \/ CallRequired

SpecDecorators == InitDecorators /\ [][NextDecorators]_vars

\* -------------------------------------------- one request, start to end
\* Every handler built on APIResource.update, delete or relationshipChange.
InitLifecycle == Init

NextLifecycle ==
    \/ RescuesUpdate
    \/ RatsUpdate
    \/ RescuesDelete
    \/ RatsDelete
    \/ relationshipRatsCreate
    \/ relationshipRatsPatch
    \/ relationshipRatsDelete
    \/ relationshipFirstLimpetPatch
    \/ relationshipUserPatch
    \/ Respond

SpecLifecycle == InitLifecycle /\ [][NextLifecycle]_vars

\* ------------------------------------------------- concurrent requests
\* A request in progress: where it stands (idle, fetched, done), its
\* context, the store as its findOne saw it, and how it ended.
Request(pc, c, seen, status) == [pc |-> pc, c |-> c, seen |-> seen, status |-> status]

\* DELETE /rats/:id running while a legacy assign on a rescue is running.
\* Each handler awaits its findOne and later issues its mutation; the other
\* request's storage calls may be served in between.
\* The two requests: a delete of a rat with its id in the path, and an
\* assign of no rat or of rat r1.
ConcurrentDeletes == { c \in DeleteRequests("rats") : ~c.queryHasId }

ConcurrentAssigns ==
    LegacyRequests("add", { ArrayData(<<>>), ArrayData(<<Identifier("rats", "r1")>>) })

DeleteFetch ==
    /\ inflight["delete"].pc = "idle"
    /\ \E c \in ConcurrentDeletes :
        IF Guarded(c, store, {}, TRUE, Outcome("ok", "", <<>>, store, "")).status = "ok"
           /\ c.id # ""
        THEN /\ inflight' = [inflight EXCEPT !["delete"] = Request("fetched", c, store, "")]
             /\ calls' = Append(calls, Call("findOne", "rats", c.id, {}, {}))
        ELSE /\ inflight' = [inflight EXCEPT !["delete"] =
                                Request("done", c, store, "rejected")]
             /\ calls' = calls
    /\ UNCHANGED <<focus, store, ctx, result, va, doc>>

\* The rest of APIResource.delete: the callback judges the entity that was
\* fetched; entity.destroy() acts on the store as it is now.
DeleteFinish ==
    /\ inflight["delete"].pc = "fetched"
    /\ LET c == inflight["delete"].c
           seen == inflight["delete"].seen
           r == delete("rats", c, seen, TRUE,
                       RatsDeleteHasPermission(c, seen, Entity(seen, "rats", c.id)))
       IN IF r.status = "ok"
          THEN /\ store' = [store EXCEPT !["rats"][c.id] = NoRow]
               /\ calls' = Append(calls, Call("destroy", "rats", c.id, {}, {}))
               /\ inflight' = [inflight EXCEPT !["delete"] = Request("done", c, seen, "ok")]
          ELSE /\ store' = store
               /\ calls' = calls
               /\ inflight' = [inflight EXCEPT !["delete"] =
                                  Request("done", c, seen, r.status)]
    /\ UNCHANGED <<focus, ctx, result, va, doc>>

AssignFetch ==
    /\ inflight["assign"].pc = "idle"
    /\ \E c \in ConcurrentAssigns :
        /\ c.id # ""
        /\ inflight' = [inflight EXCEPT !["assign"] = Request("fetched", c, store, "")]
        /\ calls' = Append(calls, Call("findOne", "rescues", c.id, {}, {}))
    /\ UNCHANGED <<focus, store, ctx, result, va, doc>>

\* The rest of the legacy assign: the permission is judged on the rescue
\* that was fetched; rescue.addRat(rat) links the rats that exist now.
AssignFinish ==
    /\ inflight["assign"].pc = "fetched"
    /\ LET c == inflight["assign"].c
           seen == inflight["assign"].seen
           r == LegacyChange(c, seen, "add")
           items == SelectSeq(c.data.items,
                              LAMBDA item : Found(store, "rats", item.id))
       IN IF r.status = "ok" /\ Found(store, "rescues", c.id)
          THEN /\ store' = LegacyEffect(store, "add", c.id, items)
               /\ calls' = calls \o LegacyCalls("add", c.id, c.data.items)
               /\ inflight' = [inflight EXCEPT !["assign"] = Request("done", c, seen, "ok")]
          ELSE /\ store' = store
               /\ calls' = calls
               /\ inflight' = [inflight EXCEPT !["assign"] =
                                  Request("done", c, seen, r.status)]
    /\ UNCHANGED <<focus, ctx, result, va, doc>>

InitConcurrentDelete ==
    /\ focus = "rats"
    /\ \E st \in InitStores, ships \in {{}, {"s1"}} :
         store = [st EXCEPT !["rats"]["r1"].ships = ships]
    /\ ctx = IdleCtx /\ calls = <<>> /\ result = IdleResult
    /\ va = IdleVa /\ doc = IdleDoc
    /\ inflight = [r \in {"delete", "assign"} |-> Request("idle", IdleCtx, store, "")]

NextConcurrentDelete == DeleteFetch \/ DeleteFinish \/ AssignFetch \/ AssignFinish

SpecConcurrentDelete == InitConcurrentDelete /\ [][NextConcurrentDelete]_vars

\* ------------------------------------------------------- legacy addquote
\* Most quotes one addquote request carries.
MaxQuotes == 2

\* Whether Permission.require lets addquote proceed.  The handler passes
\* ctx.scope, a property nothing in the controller sets, where the other
\* handlers pass ctx.state.scope: the verdict does not follow the granted
\* scope, and either outcome is possible for a known user.
AddquoteVerdicts(c) == IF c.user = "none" THEN {FALSE} ELSE BOOLEAN

\* Rescues.addquote after its findOne: what it answers, judged on the
\* rescue it fetched.
addquoteStatus(c, seen, permitted) ==
    IF c.id = "" THEN "undefined"
    ELSE IF ~Found(seen, "rescues", c.id) THEN "NotFound"
    ELSE IF ~permitted THEN "Forbidden"
    ELSE "ok"

\* Rescue.update({ quotes: rescue.quotes.concat(ctx.data) }, { where: { id } }):
\* the fetched list with the request's quotes appended replaces the stored
\* list of the row, if the row is there.
addquoteEffect(c, seen, st) ==
    IF Found(st, "rescues", c.id)
    THEN [st EXCEPT !["rescues"][c.id].quotes =
            seen["rescues"][c.id].quotes \o c.data.items]
    ELSE st

\* The addquote requests of one requester: ctx.data is an array of quotes.
AddquoteRequests(quotes) ==
    { EndpointCtx("addquote", "rescues", u, {}, i, FALSE, n, "", "", ArrayData(d)) :
        u \in {"u1", "none"}, i \in RequestIds("rescues"), n \in {rescueAccessHours},
        d \in { s \in KeySeqs(quotes, MaxQuotes) : s # <<>> } }

\* Two addquote requests in progress at once.
QuotesOf(r) == IF r = "first" THEN {"a1", "a2"} ELSE {"b1", "b2"}

QuoteFetch(r) ==
    /\ inflight[r].pc = "idle"
    /\ \E c \in AddquoteRequests(QuotesOf(r)) :
        /\ c.id # ""
        /\ inflight' = [inflight EXCEPT ![r] = Request("fetched", c, store, "")]
        /\ calls' = Append(calls, Call("findOne", "rescues", c.id, {}, {}))
    /\ UNCHANGED <<focus, store, ctx, result, va, doc>>

QuoteUpdate(r) ==
    /\ inflight[r].pc = "fetched"
    /\ \E permitted \in AddquoteVerdicts(inflight[r].c) :
        LET c == inflight[r].c
            seen == inflight[r].seen
            status == addquoteStatus(c, seen, permitted)
        IN /\ inflight' = [inflight EXCEPT ![r] = Request("done", c, seen, status)]
           /\ IF status = "ok"
              THEN /\ store' = addquoteEffect(c, seen, store)
                   /\ calls' = Append(calls, Call("update", "rescues", c.id, {"quotes"}, {}))
              ELSE /\ store' = store
                   /\ calls' = calls
    /\ UNCHANGED <<focus, ctx, result, va, doc>>

FirstFetch ==
    /\ focus = "rescues"
    /\ QuoteFetch("first")

FirstUpdate ==
    /\ focus = "rescues"
    /\ QuoteUpdate("first")

SecondFetch ==
    /\ focus = "rescues"
    /\ QuoteFetch("second")

SecondUpdate ==
    /\ focus = "rescues"
    /\ QuoteUpdate("second")

InitConcurrentQuotes ==
    /\ focus = "rescues"
    /\ \E st \in InitStores, prior \in {<<>>, <<"q0">>} :
         store = [st EXCEPT !["rescues"]["e1"].quotes = prior]
    /\ ctx = IdleCtx /\ calls = <<>> /\ result = IdleResult
    /\ va = IdleVa /\ doc = IdleDoc
    /\ inflight = [r \in {"first", "second"} |-> Request("idle", IdleCtx, store, "")]

NextConcurrentQuotes == FirstFetch \/ FirstUpdate \/ SecondFetch \/ SecondUpdate

SpecConcurrentQuotes == InitConcurrentQuotes /\ [][NextConcurrentQuotes]_vars

\* ------------------------------------- legacy update, delete, addquote
\* ctx.data of a legacy update: the columns to write.
AttributesData(keys) == [kind |-> "attributes", items |-> keys]

LegacyUpdateRequests ==
    { EndpointCtx("legacyUpdate", "rescues", "u1", s, i, FALSE, n, "", "update",
                  AttributesData(keys)) :
        s \in SUBSET selfWriteAllowedPermissions, i \in RequestIds("rescues"),
        n \in Nows("rescues"), keys \in {<<"notes">>, <<"outcome">>} }
    \cup
    { EndpointCtx("legacyUpdate", "rescues", "none", {}, "e1", FALSE, n, "", "update",
                  AttributesData(<<"notes">>)) : n \in Nows("rescues") }

LegacyDeleteRequests ==
    { EndpointCtx("legacyDelete", "rescues", u, s, i, FALSE, n, "", "delete", NullData) :
        u \in {"u1", "none"}, s \in SUBSET selfWriteAllowedPermissions,
        i \in RequestIds("rescues"), n \in Nows("rescues") }

\* Rescues.update (ctx) of the legacy controller.  listenerOk: the
\* rescueUpdated listener, run by process.emit before the return, did not
\* throw (it acts when the changed values hold `outcome`).
LegacyUpdateOutcome(c, st, listenerOk) ==
    LET rescue == Entity(st, "rescues", c.id)
        find == Call("findOne", "rescues", c.id, {}, {})
        write == Call("update", "rescues", c.id, Range(c.data.items), {})
        after == [st EXCEPT !["rescues"][c.id].attrs = @ \cup Range(c.data.items)]
    IN
    IF c.id = "" THEN Outcome("BadRequest", "id", <<>>, st, "")
    ELSE IF ~Found(st, "rescues", c.id) THEN Outcome("NotFound", "id", <<find>>, st, "")
    ELSE IF ~PermissionRequire(getRescuePermissionType(rescue, c, st), c)
    THEN Outcome("Forbidden", "", <<find>>, st, "")
    ELSE IF "outcome" \in Range(c.data.items) /\ ~listenerOk
    THEN Outcome("Error", "", <<find, write, find>>, after, "")
    ELSE Outcome("ok", "", <<find, write, find>>, after, c.id)

\* Rescues.delete (ctx) of the legacy controller: findOne, then
\* rescue.destroy().
LegacyDeleteOutcome(c, st) ==
    LET find == Call("findOne", "rescues", c.id, {}, {})
        destroy == Call("destroy", "rescues", c.id, {}, {})
    IN
    IF c.id = "" THEN Outcome("ok", "", <<>>, st, "")
    ELSE IF ~Found(st, "rescues", c.id) THEN Outcome("NotFound", "id", <<find>>, st, "")
    ELSE Outcome("ok", "", <<find, destroy>>, [st EXCEPT !["rescues"][c.id] = NoRow], "")

\* Rescues.addquote (ctx), start to end.
LegacyAddquoteOutcome(c, st, permitted) ==
    LET find == Call("findOne", "rescues", c.id, {}, {})
        write == Call("update", "rescues", c.id, {"quotes"}, {})
        status == addquoteStatus(c, st, permitted)
    IN
    IF status = "undefined" THEN Outcome("ok", "", <<>>, st, "")
    ELSE IF status = "ok"
    THEN Outcome("ok", "", <<find, write, find>>, addquoteEffect(c, st, st), c.id)
    ELSE Outcome(status, IF status = "NotFound" THEN "id" ELSE "", <<find>>, st, "")

LegacyUpdate ==
    /\ focus = "rescues" /\ Idle
    /\ \E c \in LegacyUpdateRequests, listenerOk \in BOOLEAN :
        LET r == LegacyUpdateOutcome(c, store, listenerOk)
        IN /\ ctx' = c
           /\ calls' = r.calls
           /\ result' = EndpointResult(r, NoLinkage)
           /\ store' = r.store
    /\ UNCHANGED <<focus, va, doc, inflight>>

LegacyDelete ==
    /\ focus = "rescues" /\ Idle
    /\ \E c \in LegacyDeleteRequests :
        LET r == LegacyDeleteOutcome(c, store)
        IN /\ ctx' = c
           /\ calls' = r.calls
           /\ result' = EndpointResult(r, NoLinkage)
           /\ store' = r.store
    /\ UNCHANGED <<focus, va, doc, inflight>>

\* (A rescue takes further quotes while it holds fewer than MaxQuotes.)
LegacyAddquote ==
    /\ focus = "rescues" /\ Idle
    /\ \A i \in IdsOf("rescues") : Len(store["rescues"][i].quotes) < MaxQuotes
    /\ \E c \in AddquoteRequests({"a1"}) :
       \E permitted \in AddquoteVerdicts(c) :
        LET r == LegacyAddquoteOutcome(c, store, permitted)
        IN /\ ctx' = c
           /\ calls' = r.calls
           /\ result' = EndpointResult(r, NoLinkage)
           /\ store' = r.store
    /\ UNCHANGED <<focus, va, doc, inflight>>

\* Every mutating handler of the legacy controller.
InitLegacy == InitLinkage

NextLegacy ==
    \/ LegacyUpdate
    \/ LegacyDelete
    \/ LegacyAssign
    \/ LegacyUnassign
    \/ LegacyPatch
    \/ LegacyAddquote
    \/ Respond

SpecLegacy == InitLegacy /\ [][NextLegacy]_vars

\* ------------------------------------ requests with several relationships
\* The relationships objects of two entries, in Object.entries order: one
\* entry the resource accepts next to one it rejects (a target of the
\* wrong type, or a relationship the resource does not declare).
SeveralRelationships(type) ==
    LET good == IF type = "rescues" THEN Rel("rats", ArrayData(<<>>))
                ELSE Rel("user", ObjectData(Identifier("users", "u2")))
        bad == IF type = "rescues"
               THEN { Rel("firstLimpet", ObjectData(Identifier("users", "u2"))),
                      Rel("rescueClient", NullData) }
               ELSE { Rel("ships", ArrayData(<<>>)) }
    IN { <<good, b>> : b \in bad } \cup { <<b, good>> : b \in bad } \cup { <<good>> }

SeveralBodies(type) ==
    { Body(TRUE, type, TRUE, TRUE, a, <<>>, r) :
        a \in KeySeqs({CHOOSE k \in AttrKeys(type) :
                          writePermissionsForFieldAccess(type)[k] = "group"}, 1),
        r \in SeveralRelationships(type) }

SeveralRequests(op, type) ==
    { Ctx(op, type, "u1", s, IF op = "update" THEN ExistingId(type) ELSE "", FALSE, n, b) :
        s \in SUBSET ScopesOf(type), n \in Nows(type), b \in SeveralBodies(type) }

RescuesUpdateSeveral ==
    /\ focus = "rescues" /\ Idle
    /\ \E c \in SeveralRequests("update", "rescues") :
        LET r == Guarded(c, store, {}, TRUE, update("rescues", c, store))
        IN /\ ctx' = c
           /\ calls' = r.calls
           /\ result' = ResultOf(r)
           /\ store' = r.store
    /\ UNCHANGED <<focus, va, doc, inflight>>

RatsUpdateSeveral ==
    /\ focus = "rats" /\ Idle
    /\ \E c \in SeveralRequests("update", "rats") :
        LET r == Guarded(c, store, {}, TRUE, update("rats", c, store))
        IN /\ ctx' = c
           /\ calls' = r.calls
           /\ result' = ResultOf(r)
           /\ store' = r.store
    /\ UNCHANGED <<focus, va, doc, inflight>>

RescuesCreateSeveral ==
    /\ focus = "rescues" /\ Idle /\ FreeIds(store, "rescues") # {}
    /\ \E c \in SeveralRequests("create", "rescues") :
        LET r == Guarded(c, store, {"rescues.write"}, FALSE,
                         create("rescues", c, store, NoFields))
        IN /\ ctx' = c
           /\ calls' = r.calls
           /\ result' = ResultOf(r)
           /\ store' = r.store
    /\ UNCHANGED <<focus, va, doc, inflight>>

RatsCreateSeveral ==
    /\ focus = "rats" /\ Idle /\ FreeIds(store, "rats") # {}
    /\ \E c \in SeveralRequests("create", "rats") :
        LET r == Guarded(c, store, {}, FALSE,
                         create("rats", c, store, [userId |-> c.user]))
        IN /\ ctx' = c
           /\ calls' = r.calls
           /\ result' = ResultOf(r)
           /\ store' = r.store
    /\ UNCHANGED <<focus, va, doc, inflight>>

InitSeveral == Init

NextSeveral ==
    \/ RescuesUpdateSeveral
    \/ RatsUpdateSeveral
    \/ RescuesCreateSeveral
    \/ RatsCreateSeveral
    \/ Respond

SpecSeveral == InitSeveral /\ [][NextSeveral]_vars

\* ================================================================ claims
HasCall(cs, ops) == \E i \in DOMAIN cs : cs[i].op \in ops

WriteCalls(cs) == { cs[i] : i \in { j \in DOMAIN cs : cs[j].op \in {"create", "update"} } }

PolicyKeys(type) == DOMAIN writePermissionsForFieldAccess(type)

UnknownKeys(c) == { k \in Range(c.body.attributes) : k \notin PolicyKeys(c.resource) }

\* The request passed the decorators and the checks that come before the
\* payload is read: it is authenticated, carries the scope the route
\* demands, and (update) names an id in ctx.params.
Addressed(c) ==
    /\ c.op \in {"create", "update"}
    /\ c.user # "none"
    /\ (c.op = "create" /\ c.resource = "rescues" => "rescues.write" \in c.scopes)
    /\ (c.op = "update" => c.id # "")

\* C1: a create or update whose attributes hold a key the resource's write
\* policy map lacks issues no storage create / update call and never
\* succeeds; once the request reaches the field check (it is addressed, its
\* payload is well formed, the entity exists and passes the entity gate) it
\* fails with Forbidden whose pointer is /data/attributes/<key> for a key
\* of the payload, the unknown key itself when it comes first.
C1_UnknownKeyForbidden ==
    (ctx.op \in {"create", "update"} /\ ctx.body.hasData /\ UnknownKeys(ctx) # {}) =>
        /\ WriteCalls(calls) = {}
        /\ result.status \notin {"ok", "Error", "TypeError"}
        /\ result.status \notin {"Unauthorized", "BadRequest", "UnprocessableEntity",
                                 "NotFound"}
             => /\ result.status = "Forbidden"
                /\ result.pointer \in
                     {""} \cup { "/data/attributes/" \o k : k \in Range(ctx.body.attributes) }
        /\ ( /\ Addressed(ctx)
             /\ getJSONAPIData(ctx, ctx.resource).status = "ok"
             /\ (ctx.op = "update" =>
                   /\ Found(store, ctx.resource, ctx.id)
                   /\ hasWritePermission(ctx.resource, ctx, store,
                                         Entity(store, ctx.resource, ctx.id)))
             /\ ctx.body.attributes[1] \in UnknownKeys(ctx) )
             => /\ result.status = "Forbidden"
                /\ result.pointer = "/data/attributes/" \o ctx.body.attributes[1]

C1_Witness ==
    /\ ctx.op = "update" /\ ctx.resource = "rescues"
    /\ ctx.body.attributes = <<"notes", "bogus">>
    /\ result.status = "Forbidden" /\ result.pointer = "/data/attributes/bogus"
    /\ ~HasCall(calls, {"update"})

\* C2: APIResource.update issues entity.update only if the entity-level
\* write gate on the fetched entity and the field-level check of every
\* attribute key both pass; when the entity is fetched and either fails, the
\* result is Forbidden and the store is unchanged.
C2_UpdateNeedsBothGates ==
    [][ (ctx.op = "none" /\ ctx'.op = "update") =>
          LET c == ctx'
              type == c.resource
              entity == Entity(store, type, c.id)
              gate == hasWritePermission(type, c, store, entity)
              fields == validateUpdateAccess(type, writePermissionsForFieldAccess(type),
                                             c.scopes, isSelf(type, c, store, entity),
                                             c.body.attributes).ok
              fetched == /\ Addressed(c) /\ getJSONAPIData(c, type).status = "ok"
                         /\ Found(store, type, c.id)
          IN /\ HasCall(calls', {"update"}) => (fetched /\ gate /\ fields)
             /\ (fetched /\ ~(gate /\ fields)) =>
                    (result'.status = "Forbidden" /\ store' = store)
             /\ (fetched /\ gate /\ fields) => HasCall(calls', {"update"}) ]_vars

C2_Witness ==
    /\ ctx.op = "update" /\ result.status = "Forbidden" /\ result.pointer = ""
    /\ calls = <<Call("findOne", ctx.resource, ctx.id, {}, {})>>
    /\ ctx.body.attributes # <<>>
    /\ UnknownKeys(ctx) = {}

\* The tier table of the claim, written out on the granted scopes.
ClaimTierAllows(tier, scopes, entitySelf) ==
    LET isGroup == "rescues.write" \in scopes
        isInternal == "rescues.internal" \in scopes
        self == entitySelf /\ "rescues.write.me" \in scopes
    IN \/ tier = "all"
       \/ tier = "self" /\ self
       \/ tier = "group" /\ (isGroup \/ self)
       \/ tier = "sudo" /\ isGroup
       \/ tier = "internal" /\ isInternal

\* C3: validateUpdateAccess accepts the payload iff every key is in the
\* policy map and its write tier allows it: all always, self on isSelf,
\* group on isGroup or isSelf, sudo on isGroup, internal on isInternal, with
\* isSelf the resource's self predicate together with <type>.write.me.
C3_UpdateAccessTable ==
    va.op = "update" =>
        ( va.ok <=> \A k \in Range(va.attributes) :
                        /\ k \in DOMAIN va.policy
                        /\ ClaimTierAllows(va.policy[k], va.scopes, va.entitySelf) )

\* A sudo-tier field is refused to a requester who is self (with write.me)
\* but holds no group scope.
C3_Witness ==
    /\ va.op = "update" /\ va.policy["title"] = "sudo"
    /\ va.attributes = <<"title">>
    /\ va.entitySelf /\ va.scopes = {"rescues.write.me"}
    /\ ~va.ok /\ va.pointer = "title"

OverrideKeys(c) ==
    IF c.op = "create" /\ c.resource = "rats" THEN {"userId"} ELSE {}

\* C4 as claimed: the keys handed to every storage create / update call are
\* a subset of the key set of the resource's write policy map.
C4_PersistedKeysInPolicy ==
    \A call \in WriteCalls(calls) : call.keys \subseteq PolicyKeys(call.type)

\* C4 as amended: the keys handed to a storage create / update call are the
\* keys of the request's attributes, all of them in the policy map, and for
\* Rats.create also the key userId of its overrideFields, which the policy
\* map of rats does not list.
C4_PersistedKeysInPolicyOrOverride ==
    \A call \in WriteCalls(calls) :
        /\ call.keys = Range(ctx.body.attributes) \cup OverrideKeys(ctx)
        /\ Range(ctx.body.attributes) \subseteq PolicyKeys(call.type)

C4_Witness ==
    /\ ctx.op = "create" /\ ctx.resource = "rats" /\ result.status = "ok"
    /\ \E call \in WriteCalls(calls) : call.keys = {"name", "userId"}

\* The read tiers a view declares as internal.
InternalFields(view) ==
    { f \in DOMAIN viewAttributes(view) : viewAttributes(view)[f] = "internal" }

C6_DataXorErrors ==
    doc.op = "document" => (("data" \in doc.members) # ("errors" \in doc.members))

C6_Witness ==
    /\ doc.op = "document" /\ ~doc.errors.isNull
    /\ "errors" \in doc.members /\ "data" \notin doc.members

\* C7: Document.included holds exactly one entry for every distinct
\* (type, id) pair among the includes: none twice, none dropped.
C7_IncludedOnePerTypeAndId ==
    (doc.op = "document" /\ doc.errors.isNull) =>
        /\ Range(doc.included) = Range(doc.includes)
        /\ \A i, j \in DOMAIN doc.included : i # j => doc.included[i] # doc.included[j]

\* C8: a create or update that is addressed (authenticated, permitted by the
\* route, update with an id in ctx.params) fails with UnprocessableEntity at
\* /data when data is missing or its type is not the endpoint's type, and
\* with UnprocessableEntity when data has no attributes object; no storage
\* call is issued.
C8_MalformedPayloadUnprocessable ==
    Addressed(ctx) =>
        /\ (~ctx.body.hasData \/ ~ctx.body.typeIsString \/ ctx.body.type # ctx.resource)
             => /\ result.status = "UnprocessableEntity" /\ result.pointer = "/data"
                /\ calls = <<>>
        /\ (ctx.body.hasData /\ ~ctx.body.hasAttributes)
             => /\ result.status = "UnprocessableEntity" /\ calls = <<>>

C8_Witness ==
    /\ ctx.op = "update" /\ ctx.id = "e1" /\ ctx.body.hasData
    /\ ctx.body.type = "rats" /\ ctx.resource = "rescues"
    /\ result.status = "UnprocessableEntity" /\ result.pointer = "/data"
    /\ calls = <<>>

\* C9 as claimed: validateCreateAccess never accepts a payload holding an
\* attribute whose write tier is self.
C9_SelfTierNeverAcceptedAtCreate ==
    (va.op = "create" /\ \E k \in Range(va.attributes) :
                            k \in DOMAIN va.policy /\ va.policy[k] = "self")
        => ~va.ok

\* C9 as amended: at create time a self-tier attribute is accepted iff the
\* requester holds <type>.write.me; no entity is consulted.
C9_SelfTierAtCreateIsWriteMe ==
    (va.op = "create" /\ va.attributes # <<>>
       /\ \A k \in Range(va.attributes) :
            k \in DOMAIN va.policy /\ va.policy[k] = "self")
        => (va.ok <=> "rescues.write.me" \in va.scopes)

C9_Witness ==
    /\ va.op = "create" /\ va.policy["notes"] = "self"
    /\ va.attributes = <<"notes">> /\ va.scopes = {"rescues.write.me"}
    /\ va.ok

\* The relationship operation a create applies for a relation name.
AddOpOf(name) ==
    CASE name = "rats" -> "addRats"
      [] name = "firstLimpet" -> "setFirstLimpet"
      [] OTHER -> "setUser"

\* C10: a create whose payload is { data: { type, attributes, relationships } }
\* and that succeeds has issued the storage create, then one relationship
\* change for every relationship of data.relationships, then the re-fetch
\* of the new row, which it returns.
C10_CreateAppliesDataRelationships ==
    (ctx.op = "create" /\ result.status = "ok" /\ ctx.body.hasNestedRelationships) =>
        /\ calls[1].op = "create"
        /\ \A i \in DOMAIN ctx.body.nestedRelationships :
             \E j \in DOMAIN calls :
                /\ 1 < j /\ j < Len(calls)
                /\ calls[j].op = AddOpOf(ctx.body.nestedRelationships[i].name)
        /\ calls[Len(calls)].op = "findOne"
        /\ result.returned = calls[1].id

\* A delete request that passed its decorators and names an id in ctx.params.
DeleteReached(c) ==
    /\ c.op = "delete" /\ c.user # "none" /\ c.id # ""
    /\ (c.resource = "rescues" => "rescues.write" \in c.scopes)

\* What decides a delete: the callback of Rats.delete, the default
\* entity-level write gate for Rescues.delete (no callback).
DeleteDecision(c, st) ==
    IF c.resource = "rats"
    THEN RatsDeleteHasPermission(c, st, Entity(st, "rats", c.id))
    ELSE hasWritePermission(c.resource, c, st, Entity(st, c.resource, c.id))

\* C11: a delete issues destroy exactly when the entity exists and the
\* deciding predicate grants (the supplied callback where one is given,
\* whatever the default gate would say; the default gate otherwise); an
\* absent entity gives NotFound, a denial gives Forbidden, and in both
\* cases there is no destroy call and the store is unchanged.
C11_DeleteOnlyWhenFoundAndPermitted ==
    [][ ctx'.op = "delete" =>
          LET c == ctx'
              found == Found(store, c.resource, c.id)
              grants == DeleteDecision(c, store)
          IN /\ HasCall(calls', {"destroy"}) <=> (DeleteReached(c) /\ found /\ grants)
             /\ (DeleteReached(c) /\ ~found) =>
                    (result'.status = "NotFound" /\ store' = store)
             /\ (DeleteReached(c) /\ found /\ ~grants) =>
                    (result'.status = "Forbidden" /\ store' = store)
             /\ HasCall(calls', {"destroy"}) =>
                    (result'.status = "ok" /\ ~Found(store', c.resource, c.id))
      ]_vars

\* A rat destroyed on the callback's word while the default gate would deny.
C11_Witness ==
    /\ ctx.op = "delete" /\ ctx.resource = "rats"
    /\ HasCall(calls, {"destroy"})
    /\ ctx.scopes \cap {"rats.write", "rats.write.me"} = {}

\* A view request that is authenticated and names an id in ctx.params.
ViewReached(c) == c.op = "relationshipView" /\ c.user # "none" /\ c.id # ""

\* Read permission as the claim words it.
ClaimReadAllowed(c, st) ==
    \/ ReadScope(c.resource) \in c.scopes
    \/ /\ isSelf(c.resource, c, st, Entity(st, c.resource, c.id))
       /\ ReadMeScope(c.resource) \in c.scopes

\* C12: a relationship view returns the entity's linkage only if the entity
\* exists and the requester may read it (holds <type>.read, or is self and
\* holds <type>.read.me); a missing entity gives NotFound, a requester
\* without read permission Forbidden, both without linkage; the only
\* storage call is the findOne.
C12_RelationshipViewNeedsRead ==
    ctx.op = "relationshipView" =>
        LET found == Found(store, ctx.resource, ctx.id)
            allowed == ClaimReadAllowed(ctx, store)
        IN /\ result.linkage.present => (ViewReached(ctx) /\ found /\ allowed)
           /\ (ViewReached(ctx) /\ ~found) =>
                 (result.status = "NotFound" /\ ~result.linkage.present)
           /\ (ViewReached(ctx) /\ found /\ ~allowed) =>
                 (result.status = "Forbidden" /\ ~result.linkage.present)
           /\ (ViewReached(ctx) /\ found /\ allowed) =>
                 /\ result.status = "ok"
                 /\ result.linkage =
                        Linkage(Entity(store, ctx.resource, ctx.id), ctx.relationship)
           /\ \A i \in DOMAIN calls : calls[i].op = "findOne"

\* A requester without <type>.read is shown a non-empty linkage on the
\* strength of being self and holding <type>.read.me.
C12_Witness ==
    /\ ctx.op = "relationshipView"
    /\ ReadScope(ctx.resource) \notin ctx.scopes
    /\ result.linkage.present /\ result.linkage.ids # {}

\* The add / patch / remove operations of the relationship descriptors.
RelationOps == {"addRats", "setRats", "removeRats", "setFirstLimpet", "setUser"}

\* A relationship change that reached generateRelationshipChange: it is
\* authenticated, names an id, the entity exists in st and the entity-level
\* write gate passed.
ChangeReached(c, st) ==
    /\ c.op = "relationshipChange" /\ c.user # "none" /\ c.id # ""
    /\ Found(st, c.resource, c.id)
    /\ hasWritePermission(c.resource, c, st, Entity(st, c.resource, c.id))

IsMany(c) == changeRelationship(c.resource, c.relationship).many

WellTyped(c, item) ==
    item.hasId /\ item.type = relationTypes(c.resource, c.relationship)

\* Payload shape and descriptor disagree, as the claim lists the cases.
ShapeMismatch(c) ==
    \/ ~IsMany(c) /\ c.data.kind = "array"
    \/ IsMany(c) /\ c.data.kind # "array"
    \/ /\ IsMany(c) /\ c.data.kind = "array"
       /\ \E i \in DOMAIN c.data.items : ~WellTyped(c, c.data.items[i])

\* C13: in a relationship change that reached generateRelationshipChange, a
\* payload whose shape does not fit the descriptor fails with
\* UnprocessableEntity, a well-shaped payload whose permission predicate
\* denies fails with Forbidden, and in both cases no add / patch / remove
\* operation of the descriptor is invoked.
C13_MismatchUnprocessableDeniedForbidden ==
    (ctx.op = "relationshipChange" /\ ChangeReached(ctx, store)) =>
        /\ ShapeMismatch(ctx) =>
              (result.status = "UnprocessableEntity" /\ ~HasCall(calls, RelationOps))
        /\ ( /\ ~ShapeMismatch(ctx)
             /\ ctx.resource = "rats" /\ ctx.data.kind = "object"
             /\ WellTyped(ctx, ctx.data.items[1])
             /\ "rats.write" \notin ctx.scopes ) =>
              (result.status = "Forbidden" /\ ~HasCall(calls, RelationOps))

\* C14: a patch of a one-cardinality relationship with an object whose type
\* is not the relation's target type never invokes setFirstLimpet / setUser
\* and leaves the store as it was; once it reaches
\* generateRelationshipChange it fails with UnprocessableEntity.
C14_WrongTypeOnOneRelation ==
    [][ ( /\ ctx'.op = "relationshipChange" /\ ~IsMany(ctx')
          /\ ctx'.data.kind = "object"
          /\ ctx'.data.items[1].type # relationTypes(ctx'.resource, ctx'.relationship) )
        => /\ ~HasCall(calls', RelationOps)
           /\ store' = store
           /\ ChangeReached(ctx', store) => result'.status = "UnprocessableEntity"
      ]_vars

\* A holder of rats.write patches the user of a stored rat with an object of
\* the wrong type and is answered UnprocessableEntity.
C14_Witness ==
    /\ ctx.op = "relationshipChange" /\ ctx.relationship = "user"
    /\ "rats.write" \in ctx.scopes
    /\ ctx.data.kind = "object" /\ ctx.data.items[1].hasId
    /\ ctx.data.items[1].type = "wrong-type"
    /\ result.status = "UnprocessableEntity"

\* C15: a patch of a one-cardinality relationship with data = null that
\* reached generateRelationshipChange ends in success or in a structured
\* API error; when the descriptor's predicate grants (rats.write for
\* rats.user) it succeeds, having invoked the patch operation with no
\* target, and the linkage is empty afterwards.
C15_NullClearsOneRelation ==
    ( /\ ctx.op = "relationshipChange" /\ ~IsMany(ctx) /\ ctx.data.kind = "null"
      /\ ctx.user # "none" /\ ctx.id # "" /\ Found(store, ctx.resource, ctx.id) ) =>
        /\ result.status \in {"ok", "UnprocessableEntity", "Forbidden"}
        /\ (ctx.resource = "rats" /\ "rats.write" \in ctx.scopes) =>
              /\ result.status = "ok"
              /\ \E i \in DOMAIN calls : calls[i].op = "setUser" /\ calls[i].ids = {}
              /\ result.linkage.ids = {}

\* The ids of an array payload.
PayloadIds(c) == { c.data.items[i].id : i \in DOMAIN c.data.items }

ManyOpOf(change) ==
    CASE change = "add" -> "addRats"
      [] change = "patch" -> "setRats"
      [] OTHER -> "removeRats"

\* C16: a change of the many-cardinality rescues.rats relation by a holder
\* of rescues.write whose payload is an array of well-typed identifiers
\* succeeds and invokes the chosen operation exactly once, with all the
\* payload's ids.
C16_ManyChangeReachesOperation ==
    ( /\ ctx.op = "relationshipChange" /\ IsMany(ctx) /\ ctx.data.kind = "array"
      /\ ~ShapeMismatch(ctx)
      /\ ctx.user # "none" /\ ctx.id # "" /\ "rescues.write" \in ctx.scopes
      /\ Found(store, ctx.resource, ctx.id) ) =>
        /\ result.status = "ok"
        /\ Cardinality({ i \in DOMAIN calls : calls[i].op \in RelationOps }) = 1
        /\ \E i \in DOMAIN calls :
              calls[i].op = ManyOpOf(ctx.change) /\ calls[i].ids = PayloadIds(ctx)

\* A step that changed the rats of a rescue successfully, through the
\* relationship endpoints or the legacy controller.
RatsChanged(c, res, change) ==
    /\ c.op \in {"relationshipChange", "legacy"}
    /\ c.relationship = "rats" /\ c.change = change
    /\ res.status = "ok" /\ res.returned # ""

\* C17: a successful patch of a rescue's rats with a list of ids leaves
\* exactly those ids as the linkage the re-fetch yields, whatever the
\* relation held before; a successful add yields the prior set plus the
\* ids, a successful remove the prior set minus the ids.
C17_PatchReplacesLinkage ==
    [][ LET c == ctx'
            before == Entity(store, "rescues", c.id).rats
        IN /\ RatsChanged(c, result', "patch") =>
                 /\ result'.linkage.ids = PayloadIds(c)
                 /\ Entity(store', "rescues", c.id).rats = PayloadIds(c)
           /\ RatsChanged(c, result', "add") =>
                 result'.linkage.ids = before \cup PayloadIds(c)
           /\ RatsChanged(c, result', "remove") =>
                 result'.linkage.ids = before \ PayloadIds(c)
      ]_vars

\* A patch with two ids succeeded on a rescue whose re-fetched linkage is
\* those two ids.
C17_Witness ==
    /\ RatsChanged(ctx, result, "patch")
    /\ Cardinality(PayloadIds(ctx)) = 2
    /\ result.linkage.ids = PayloadIds(ctx)

\* An update that reached the entity-level write gate: authenticated, id
\* in ctx.params, well-formed payload, entity found in st.
UpdateReached(c, st) ==
    /\ c.op = "update" /\ c.user # "none" /\ c.id # ""
    /\ getJSONAPIData(c, c.resource).status = "ok"
    /\ Found(st, c.resource, c.id)

\* The requester has a rat assigned to the rescue or as its first limpet.
Involved(c, st, rescue) ==
    \/ \E rat \in rescue.rats : Entity(st, "rats", rat).userId = c.user
    \/ /\ rescue.firstLimpet # "none"
       /\ Entity(st, "rats", rescue.firstLimpet).userId = c.user

GateDenied(res) == res.status = "Forbidden" /\ res.pointer = ""

\* C18: for an authenticated requester who is not involved with the
\* rescue and holds rescues.write.me but not rescues.write, Rescues.isSelf
\* and the entity-level write gate grant exactly when
\* now - createdAt < rescueAccessTime (3 hours); outside the window the gate
\* of an uninvolved requester follows the scope rescues.write alone.
C18_GraceWindow ==
    [][ (UpdateReached(ctx', store) /\ ctx'.resource = "rescues") =>
          LET c == ctx'
              rescue == Entity(store, "rescues", c.id)
              within == (c.now - rescue.createdAt) < rescueAccessTime
          IN /\ ( /\ ~Involved(c, store, rescue)
                  /\ "rescues.write.me" \in c.scopes
                  /\ "rescues.write" \notin c.scopes ) =>
                    /\ isSelf("rescues", c, store, rescue) = within
                    /\ hasWritePermission("rescues", c, store, rescue) = within
                    /\ GateDenied(result') = ~within
             /\ (~Involved(c, store, rescue) /\ ~within) =>
                    /\ hasWritePermission("rescues", c, store, rescue)
                          = ("rescues.write" \in c.scopes)
                    /\ GateDenied(result') = ("rescues.write" \notin c.scopes)
      ]_vars

\* An uninvolved holder of rescues.write.me alone updated a rescue inside
\* the window.
C18_Witness ==
    /\ ctx.op = "update" /\ ctx.resource = "rescues"
    /\ ctx.scopes = {"rescues.write.me"}
    /\ ~Involved(ctx, store, Entity(store, "rescues", ctx.id))
    /\ ctx.now - Entity(store, "rescues", ctx.id).createdAt < rescueAccessTime
    /\ ctx.body.attributes # <<>>
    /\ result.status = "ok"

\* The type's self predicate, as the specification describes it: the owner
\* of a rat; for a rescue, inside the window or involved.
SelfPredicate(c, st) ==
    LET entity == Entity(st, c.resource, c.id)
    IN IF c.resource = "rats" THEN entity.userId = c.user
       ELSE \/ (c.now - entity.createdAt) < rescueAccessTime
            \/ Involved(c, st, entity)

\* C19: an update by a requester who satisfies the type's self predicate
\* and holds <type>.write.me passes the entity-level write gate, and the
\* owner of a rat may so update group-tier fields of the rat.
C19_SelfWithWriteMePassesGate ==
    ( /\ UpdateReached(ctx, store)
      /\ SelfPredicate(ctx, store)
      /\ WriteMeScope(ctx.resource) \in ctx.scopes ) =>
        /\ ~GateDenied(result)
        /\ ( /\ ctx.resource = "rats"
             /\ \A k \in Range(ctx.body.attributes) :
                   PolicyLookup(writePermissionsForFieldAccess("rats"), k) = "group" )
           => result.status # "Forbidden"

\* C20: when a create or update has issued its storage create / update and
\* the request then fails, the write stays: the created row exists, the
\* updated row holds the written attribute keys, and the request reports
\* the error.
C20_NoRollback ==
    [][ ( /\ ctx'.op \in {"create", "update"}
          /\ HasCall(calls', {"create", "update"})
          /\ result'.status # "ok" ) =>
          LET w == CHOOSE x \in WriteCalls(calls') : TRUE
              row == store'[w.type][w.id]
          IN /\ row.exists
             /\ Range(ctx'.body.attributes) \subseteq row.attrs
             /\ (w.op = "create" => ~store[w.type][w.id].exists)
             /\ (w.op = "update" =>
                    row.attrs = store[w.type][w.id].attrs \cup Range(ctx'.body.attributes))
      ]_vars

\* An update wrote an attribute and then failed in a relationship change
\* with a structured error; the attribute is stored.
C20_Witness ==
    /\ ctx.op = "update"
    /\ HasCall(calls, {"update"})
    /\ result.status \in {"UnprocessableEntity", "Forbidden"}
    /\ ctx.body.attributes # <<>>
    /\ Range(ctx.body.attributes) \subseteq store[ctx.resource][ctx.id].attrs

\* ------------------------------------------------------------------- C21
\* The fields of a decorated call that are missing from its context.
MissingOf(call) ==
    IF call.op = "parameters"
    THEN { f \in Range(call.fields) : f \notin call.args.params /\ f \notin call.args.query }
    ELSE { f \in Range(call.fields) : f \notin call.args.data }

\* The declaration position of a thrown error's field.
FieldOf(error) ==
    IF error.source = "parameter" THEN error.value ELSE error.value[3]

PositionIn(fields, f) == CHOOSE i \in DOMAIN fields : fields[i] = f

\* C21: required(...fields) and parameters(...fields) report all missing
\* fields at once.  With k >= 1 listed fields missing, the call throws exactly
\* k BadRequest errors, one per missing field and in declaration order, and
\* the wrapped endpoint is not invoked; with none missing the endpoint is
\* invoked exactly once, with the arguments of the call.
C21_AllMissingFieldsReported ==
    va.op \in {"parameters", "required"} =>
        LET missing == MissingOf(va)
        IN IF missing # {}
           THEN /\ Len(va.thrown) = Cardinality(missing)
                /\ va.invocations = <<>>
                /\ \A i \in DOMAIN va.thrown :
                     /\ va.thrown[i].status = "BadRequest"
                     /\ FieldOf(va.thrown[i]) \in missing
                     /\ va.thrown[i].source =
                          (IF va.op = "parameters" THEN "parameter" ELSE "pointer")
                /\ \A i, j \in DOMAIN va.thrown :
                     i < j => PositionIn(va.fields, FieldOf(va.thrown[i]))
                                < PositionIn(va.fields, FieldOf(va.thrown[j]))
           ELSE /\ va.thrown = <<>>
                /\ va.invocations = <<va.args>>

\* Login.login called with neither email nor password: two errors at once.
C21_Witness ==
    /\ va.op = "required"
    /\ va.fields = <<"email", "password">>
    /\ va.args.data = {}
    /\ Len(va.thrown) = 2
    /\ va.invocations = <<>>

\* ------------------------------------------------------------------- C22
\* Every entry of the object a is an entry of the object b.
Contains(b, a) == \A k \in DOMAIN a : k \in DOMAIN b /\ b[k] = a[k]

\* C22: the meta member of a rendered document contains every
\* caller-supplied extra field.  A Document constructed with meta = M
\* renders a meta containing all entries of M (exactly M, the Document
\* having no paginated result), and Meta merges additionalParameters into
\* the counters count, limit, offset, total of a paginated result.
C22_MetaCarriesSuppliedFields ==
    /\ doc.op = "documentMeta" => doc.meta = doc.given
    /\ doc.op = "Meta" =>
         /\ Contains(doc.meta, doc.given)
         /\ (doc.hasQuery /\ ~doc.result.isArray) =>
              DOMAIN doc.meta = {"count", "limit", "offset", "total"} \cup DOMAIN doc.given
         /\ ~doc.hasQuery => doc.meta = doc.given

\* ------------------------------------------------------------------- C23
\* The storage calls that change a row.
MutationOps == {"update", "destroy"} \cup RelationOps

Mutations(cs) == { i \in DOMAIN cs : cs[i].op \in MutationOps }

\* The entity-level permission check of a request on the store it found.
EntityGate(c, st) ==
    IF c.op = "delete" THEN DeleteDecision(c, st)
    ELSE hasWritePermission(c.resource, c, st, Entity(st, c.resource, c.id))

\* C23: within one request the order is fetched, permission-checked,
\* mutated, re-fetched.  In update, delete and relationshipChange no storage
\* mutation (entity.update, entity.destroy, add / set / remove of a relation)
\* is issued unless the entity was fetched first, exists and passed the
\* entity-level permission check; and a successful update or
\* relationshipChange returns the row of a findOne issued after the last
\* mutation of the request.
C23_FetchCheckMutateRefetch ==
    [][ ctx'.op \in {"update", "delete", "relationshipChange"} =>
          LET c == ctx'
              cs == calls'
          IN /\ Mutations(cs) # {} =>
                  /\ cs[1] = Call("findOne", c.resource, c.id, {}, {})
                  /\ Found(store, c.resource, c.id)
                  /\ EntityGate(c, store)
             /\ (c.op # "delete" /\ result'.status = "ok") =>
                  /\ cs # <<>>
                  /\ cs[Len(cs)] = Call("findOne", c.resource, c.id, {}, {})
                  /\ \A i \in Mutations(cs) : 1 < i /\ i < Len(cs)
                  /\ result'.returned = c.id
      ]_vars

\* A relationship change that fetched, changed the relation and re-fetched.
C23_Witness ==
    /\ ctx.op = "relationshipChange"
    /\ result.status = "ok"
    /\ Len(calls) = 3
    /\ calls[1].op = "findOne" /\ calls[2].op \in RelationOps /\ calls[3].op = "findOne"
    /\ calls[2].ids # {}

\* ------------------------------------------------------------------- C24
\* C24: a rescue update does not depend on its side effects.  Once the
\* entity-level gate passed, the attributes were written and the re-fetch
\* was issued, the request answers with the updated rescue, whether or not
\* the outbound fetch that follows super.update succeeds: a persisted update
\* never ends in an error response.
C24_UpdateIndependentOfSideEffects ==
    ( /\ ctx.op = "update" /\ ctx.resource = "rescues"
      /\ HasCall(calls, {"update"})
      /\ calls[Len(calls)] = Call("findOne", "rescues", ctx.id, {}, {}) )
      => (result.status = "ok" /\ result.returned = ctx.id)

\* ------------------------------------------------------------------- C25
\* The permission list as the claim states it: the self-write allowance for
\* a known user who is involved with a rescue created less than
\* RESCUE_ACCESS_TIME before now, the moderator permission otherwise.
ClaimPermissionType(rescue, c, st) ==
    IF /\ c.user # "none"
       /\ \E rat \in UserRats(st, c.user) :
              rat \in rescue.rats \/ rescue.firstLimpet = rat
       /\ (c.now - rescue.createdAt) < RESCUE_ACCESS_TIME
    THEN {"rescue.write.me", "rescue.write"}
    ELSE {"rescue.write"}

C26_DeletedRatStillUnused ==
    [][ ( /\ inflight["delete"].pc = "fetched"
          /\ inflight'["delete"].status = "ok"
          /\ "rats.write" \notin inflight["delete"].c.scopes ) =>
          LET id == inflight["delete"].c.id
          IN /\ store["rats"][id].ships = {}
             /\ RatRescues(store, id) = {}
             /\ RatFirstLimpet(store, id) = {}
      ]_vars

\* ------------------------------------------------------------------- C27
\* Both addquote requests completed successfully on the same rescue.
BothQuoted ==
    /\ DOMAIN inflight = {"first", "second"}
    /\ \A r \in {"first", "second"} : inflight[r].pc = "done" /\ inflight[r].status = "ok"
    /\ inflight["first"].c.id = inflight["second"].c.id

\* The quotes the rescue held before either request: what the earlier of the
\* two fetches saw.
PriorQuotes(id) ==
    LET a == inflight["first"].seen["rescues"][id].quotes
        b == inflight["second"].seen["rescues"][id].quotes
    IN IF Len(a) <= Len(b) THEN a ELSE b

\* C27: addquote never loses a quote.  After two addquote requests on the
\* same rescue have both completed successfully, in any interleaving of
\* their findOne and update steps, the stored quotes are the prior list with
\* the quotes of both requests appended.
C27_NoQuoteLost ==
    BothQuoted =>
        LET id == inflight["first"].c.id
            stored == store["rescues"][id].quotes
            prior == PriorQuotes(id)
            mine == inflight["first"].c.data.items
            yours == inflight["second"].c.data.items
        IN /\ Len(stored) = Len(prior) + Len(mine) + Len(yours)
           /\ SubSeq(stored, 1, Len(prior)) = prior
           /\ Range(mine) \cup Range(yours) \subseteq Range(stored)

\* ------------------------------------------------------------------- C28
LegacyOps == {"legacy", "legacyUpdate", "legacyDelete", "addquote"}

LegacyMutationOps == {"update", "destroy", "addRat", "removeRat", "setRats"}

\* C28: every mutating handler of the legacy rescue controller (update,
\* delete, assign, unassign, patch, addquote) issues its storage mutation
\* only after Permission.require on getRescuePermissionType(rescue, user)
\* has passed for the fetched rescue, judged on the request's granted scope
\* (ctx.state.scope); no rescue is modified or destroyed without it.
C28_LegacyMutationNeedsPermission ==
    [][ ( /\ ctx'.op \in LegacyOps
          /\ HasCall(calls', LegacyMutationOps) ) =>
          /\ Found(store, "rescues", ctx'.id)
          /\ PermissionRequire(
                 getRescuePermissionType(Entity(store, "rescues", ctx'.id), ctx', store),
                 ctx')
      ]_vars

\* ------------------------------------------------------------------- C29
\* C29: when one update or create request carries several relationship
\* payloads and one of them is invalid or denied, no relationship mutation
\* of that request is issued at all: every payload is validated and
\* permission-checked before the first add / patch call is made.
C29_NoPartialRelationshipChange ==
    ( /\ ctx.op \in {"create", "update"}
      /\ Len(RequestRelationships(ctx)) > 1
      /\ result.status # "ok" )
      => ~HasCall(calls, RelationOps)

\* ------------------------------------------------------------------- C30
\* C30: whenever the parameters('id') check of an update endpoint passes
\* (id in ctx.params or in ctx.query), APIResource.update does not fail
\* with BadRequest for a missing id and, the payload being well-formed,
\* looks up the entity; so does Rats.update, routed at '/rats', when the id
\* comes as a query parameter.
C30_CheckedIdReachesLookup ==
    ( /\ ctx.op = "update"
      /\ authenticated(ctx)
      /\ parameters(ctx) )
      => /\ ~(result.status = "BadRequest" /\ result.pointer = "id")
         /\ getJSONAPIData(ctx, ctx.resource).status = "ok"
              => HasCall(calls, {"findOne"})

====
